---- MODULE Spec2Model ----
(***************************************************************************)
(* A model of the FTex core: the Entity Resolution Engine                  *)
(* (backend/app/services/entity_resolution_engine.py) and the Network      *)
(* Generation Engine (backend/app/services/network_generation.py).         *)
(*                                                                         *)
(* Conventions                                                             *)
(*  - a Python str is a sequence of one-character strings;                 *)
(*  - a Python value is a tagged record: StrV, NoneV, IntV, BoolV;         *)
(*  - a Python dict is a function (insertion order is kept beside it       *)
(*    where the code's result depends on it);                              *)
(*  - a Python float is an exact rational <<n, d>>, d > 0, in lowest terms; *)
(*  - hashlib.md5(s).hexdigest()[:16] is modelled as injective: the hash   *)
(*    of s is s itself, so two ids are equal exactly when the hashed       *)
(*    strings are.                                                         *)
(***************************************************************************)
EXTENDS Integers, Sequences, FiniteSets, TLC

VARIABLES
    \* ---- Entity Resolution Engine session
    match_threshold,      \* EntityResolutionEngine.match_threshold
    blocking_strategies,  \* EntityResolutionEngine.blocking_strategies
    records,              \* the batch handed to resolve, in input order
    outcome,              \* "idle", "ok" (resolve returned) or "raised"
    scored_pairs,         \* resolve's local scored_pairs of the last call
    resolved,             \* the list resolve returned last
    runs,                 \* the sets of resolved_id returned so far for this batch
    reordered,            \* some resubmission exchanged two records of the batch
    standardized,         \* the standardize_record call made last and what it returned
    blocking_keys,           \* what generate_blocking_keys returned, by position of its record
    \* ---- Network Generation Engine session
    nodes,                \* Network.nodes: id -> NetworkNode
    node_order,           \* insertion order of Network.nodes
    edges,                \* Network.edges: id -> NetworkEdge
    edge_order,           \* insertion order of Network.edges
    last_op,              \* the engine call made last
    prev_op,              \* the engine call made before it
    ops,                  \* the number of engine calls made so far
    ret,                  \* what the last engine call returned
    \* ---- SimilarityScorer session
    str_a,                \* the first string handed to the scorer
    str_b,                \* the second string handed to the scorer
    sim                   \* the call made last and what it returned

er_vars  == <<match_threshold, blocking_strategies, records, outcome,
              scored_pairs, resolved, runs, reordered, standardized, blocking_keys>>
net_vars == <<nodes, node_order, edges, edge_order, last_op, prev_op, ops, ret>>
sim_vars == <<str_a, str_b, sim>>
vars     == <<er_vars, net_vars, sim_vars>>

(***************************************************************************)
(* Sequences, sets and rationals.                                          *)
(***************************************************************************)
Range(s) == {s[i] : i \in DOMAIN s}

Max2(a, b) == IF a >= b THEN a ELSE b
Min2(a, b) == IF a <= b THEN a ELSE b

RECURSIVE Gcd(_, _)
Gcd(a, b) == IF b = 0 THEN a ELSE Gcd(b, a % b)

Abs(a) == IF a < 0 THEN -a ELSE a

\* LET v == x IN F(v), with x evaluated once
LetIn(x, F(_)) == F(x)

\* the rational n/d in lowest terms, d > 0
Rat(n, d) ==
    LetIn(Gcd(Abs(n), Abs(d)),
          LAMBDA g : IF d < 0 THEN <<-(n \div g), -(d \div g)>> ELSE <<n \div g, d \div g>>)

RZero == <<0, 1>>
ROne  == <<1, 1>>
RAdd(p, q) ==
    LetIn(Gcd(p[2], q[2]),
          LAMBDA g : Rat(p[1] * (q[2] \div g) + q[1] * (p[2] \div g), (p[2] \div g) * q[2]))
RSub(p, q) == RAdd(p, <<-q[1], q[2]>>)
RMulReduced(a, b) == <<a[1] * b[1], a[2] * b[2]>>
RMul(p, q) == RMulReduced(Rat(p[1], q[2]), Rat(q[1], p[2]))
RDiv(p, q) == RMul(p, Rat(q[2], q[1]))
RLeq(p, q) == p[1] * q[2] <= q[1] * p[2]
RLt(p, q)  == p[1] * q[2] < q[1] * p[2]
RMin(p, q) == IF RLeq(p, q) THEN p ELSE q

RECURSIVE RSum(_)
RSum(s) == IF s = <<>> THEN RZero ELSE RAdd(s[1], RSum(Tail(s)))

(***************************************************************************)
(* Characters and strings.                                                 *)
(***************************************************************************)
LowerChars == <<"a","b","c","d","e","f","g","h","i","j","k","l","m",
                "n","o","p","q","r","s","t","u","v","w","x","y","z">>
UpperChars == <<"A","B","C","D","E","F","G","H","I","J","K","L","M",
                "N","O","P","Q","R","S","T","U","V","W","X","Y","Z">>
DigitChars == <<"0","1","2","3","4","5","6","7","8","9">>

\* the characters of the model, in code-point order
\* "U+0130" is LATIN CAPITAL LETTER I WITH DOT ABOVE, "U+0307" is COMBINING DOT ABOVE
CharOrder == <<" ", ",", "-", ".">> \o DigitChars \o UpperChars \o <<"_">> \o LowerChars
                 \o <<"U+0130", "U+0307">>
CharSet   == Range(CharOrder)

IndexIn(c, s) == CHOOSE i \in DOMAIN s : s[i] = c

CodeOf  == [c \in CharSet |-> IndexIn(c, CharOrder)]
\* c.lower() is a string: U+0130 lower-cases to the two characters "i", U+0307
LowerOf == [c \in CharSet |->
              IF c \in Range(UpperChars) THEN <<LowerChars[IndexIn(c, UpperChars)]>>
              ELSE IF c = "U+0130" THEN <<"i", "U+0307">> ELSE <<c>>]
\* the character re.IGNORECASE compares: the simple lower case, one character
FoldOf  == [c \in CharSet |->
              IF c \in Range(UpperChars) THEN LowerChars[IndexIn(c, UpperChars)]
              ELSE IF c = "U+0130" THEN "i" ELSE c]
UpperOf == [c \in CharSet |->
              IF c \in Range(LowerChars) THEN UpperChars[IndexIn(c, LowerChars)] ELSE c]

IsUpperAZ(c) == c \in Range(UpperChars)
IsWord(c)    == c \in Range(LowerChars) \cup Range(UpperChars) \cup Range(DigitChars)
                         \cup {"_", "U+0130"}
IsSpace(c)   == c = " "

\* str.lower(), str.upper()
\* the concatenation of a sequence of sequences
RECURSIVE Flatten(_)
Flatten(ss) == IF ss = <<>> THEN <<>> ELSE ss[1] \o Flatten(Tail(ss))
Lower(s) == Flatten([i \in DOMAIN s |-> LowerOf[s[i]]])
Fold(s)  == [i \in DOMAIN s |-> FoldOf[s[i]]]
Upper(s) == [i \in DOMAIN s |-> UpperOf[s[i]]]

\* s[a:b] with 0-based Python bounds 0 <= a, clipped to len(s)
Slice(s, a, b) ==
    LET hi == Min2(b, Len(s))
    IN  IF a >= hi THEN <<>> ELSE SubSeq(s, a + 1, hi)

\* str.replace(" ", "")
NotSpace(c) == c # " "
RemoveSpaces(s) == SelectSeq(s, NotSpace)

\* a < b for Python strings: lexicographic by code point
RECURSIVE StrLess(_, _)
StrLess(a, b) ==
    IF b = <<>> THEN FALSE
    ELSE IF a = <<>> THEN TRUE
    ELSE IF a[1] = b[1] THEN StrLess(Tail(a), Tail(b))
    ELSE CodeOf[a[1]] < CodeOf[b[1]]

\* str.split(): the maximal runs of non-whitespace characters
RECURSIVE SplitFrom(_, _, _)
SplitFrom(s, i, cur) ==
    IF i > Len(s) THEN (IF cur = <<>> THEN <<>> ELSE <<cur>>)
    ELSE IF IsSpace(s[i])
         THEN (IF cur = <<>> THEN <<>> ELSE <<cur>>) \o SplitFrom(s, i + 1, <<>>)
         ELSE SplitFrom(s, i + 1, Append(cur, s[i]))
Split(s) == SplitFrom(s, 1, <<>>)

\* sep.join(parts)
RECURSIVE Join(_, _)
Join(sep, parts) ==
    IF parts = <<>> THEN <<>>
    ELSE IF Len(parts) = 1 THEN parts[1]
    ELSE parts[1] \o sep \o Join(sep, Tail(parts))

(***************************************************************************)
(* Python values and dicts.                                                *)
(***************************************************************************)
StrV(s)  == [k |-> "str", s |-> s]
NoneV    == [k |-> "none"]
IntV(n)  == [k |-> "int", n |-> n]
BoolV(b) == [k |-> "bool", b |-> b]

IsStr(v) == v.k = "str"

\* bool(v): None, "", 0 and False are falsy
Truthy(v) ==
    CASE v.k = "none" -> FALSE
      [] v.k = "str"  -> v.s # <<>>
      [] v.k = "int"  -> v.n # 0
      [] v.k = "bool" -> v.b

\* a or b
PyOr(a, b) == IF Truthy(a) THEN a ELSE b

\* a == b: bool is a subclass of int, so False == 0 and True == 1
AsInt(v) == IF v.k = "bool" THEN (IF v.b THEN 1 ELSE 0) ELSE v.n
PyEq(a, b) ==
    IF a.k \in {"int", "bool"} /\ b.k \in {"int", "bool"} THEN AsInt(a) = AsInt(b)
    ELSE a = b

\* the decimal digits of n >= 0
RECURSIVE Digits(_)
Digits(n) == IF n < 10 THEN <<DigitChars[n + 1]>>
             ELSE Append(Digits(n \div 10), DigitChars[(n % 10) + 1])

\* str(v)
PyStr(v) ==
    CASE v.k = "str"  -> v.s
      [] v.k = "none" -> <<"N","o","n","e">>
      [] v.k = "int"  -> IF v.n < 0 THEN <<"-">> \o Digits(-v.n) ELSE Digits(v.n)
      [] v.k = "bool" -> IF v.b THEN <<"T","r","u","e">> ELSE <<"F","a","l","s","e">>

\* d.get(key) and d.get(key, default)
Get(d, key)         == IF key \in DOMAIN d THEN d[key] ELSE NoneV
GetOr(d, key, dflt) == IF key \in DOMAIN d THEN d[key] ELSE dflt

\* d with d[key] = value
Put(d, key, value) == [x \in DOMAIN d \cup {key} |-> IF x = key THEN value ELSE d[x]]

(***************************************************************************)
(* 4.1 Record Normalizer: EntityResolutionEngine.standardize_record        *)
(***************************************************************************)
\* the end of the run of word characters that starts at s[i]
RECURSIVE WordEnd(_, _)
WordEnd(s, i) == IF i < Len(s) /\ IsWord(s[i + 1]) THEN WordEnd(s, i + 1) ELSE i

\* re.sub(r'\b(w1|w2|...)\b' + (r'\.?' if eat_dot), repl, s, flags=re.IGNORECASE):
\* a match is a whole run of word characters that equals one of the words,
\* whatever its case, with the full stop after it when eat_dot
RECURSIVE SubWordsFrom(_, _, _, _, _)
SubWordsFrom(s, i, words, repl, eat_dot) ==
    IF i > Len(s) THEN <<>>
    ELSE IF IsWord(s[i])
         THEN LET j   == WordEnd(s, i)
                  run == SubSeq(s, i, j)
              IN  IF Fold(run) \in words
                  THEN LET nxt == IF eat_dot /\ j < Len(s) /\ s[j + 1] = "." THEN j + 2 ELSE j + 1
                       IN  repl \o SubWordsFrom(s, nxt, words, repl, eat_dot)
                  ELSE run \o SubWordsFrom(s, j + 1, words, repl, eat_dot)
         ELSE <<s[i]>> \o SubWordsFrom(s, i + 1, words, repl, eat_dot)
SubWords(s, words, repl, eat_dot) == SubWordsFrom(s, 1, words, repl, eat_dot)

Titles == { <<"m","r">>, <<"m","r","s">>, <<"m","s">>, <<"d","r">>, <<"p","r","o","f">>,
            <<"j","r">>, <<"s","r">>, <<"i","i","i">>, <<"i","i">>, <<"i","v">> }

WordOrSpace(c) == IsWord(c) \/ IsSpace(c)

\* lines 366-374
StandardizeName(name) ==
    LET no_titles == SubWords(name, Titles, <<>>, TRUE)
        no_punct  == SelectSeq(no_titles, WordOrSpace)
    IN  Join(<<" ">>, Split(no_punct))

\* lines 384-390
StandardizeAddress(addr) ==
    LET a1 == SubWords(addr, {<<"s","t","r","e","e","t">>}, <<"S","t">>, FALSE)
        a2 == SubWords(a1, {<<"r","o","a","d">>}, <<"R","d">>, FALSE)
    IN  SubWords(a2, {<<"a","v","e","n","u","e">>}, <<"A","v","e">>, FALSE)

\* re.sub raises TypeError on a value that is not a str
StandardizeRaises(record) ==
    \/ "name" \in DOMAIN record.attributes /\ ~IsStr(record.attributes["name"])
    \/ "address" \in DOMAIN record.attributes /\ ~IsStr(record.attributes["address"])

\* lines 366-374, 377-381 and 384-390 on the dict attrs
WithNameStandardized(attrs) ==
    IF "name" \in DOMAIN attrs
    THEN Put(attrs, "name_standardized", StrV(StandardizeName(attrs["name"].s))) ELSE attrs
WithDobStandardized(attrs) ==
    IF "date_of_birth" \in DOMAIN attrs
    THEN Put(attrs, "dob_standardized", StrV(PyStr(attrs["date_of_birth"]))) ELSE attrs
WithAddressStandardized(attrs) ==
    IF "address" \in DOMAIN attrs
    THEN Put(attrs, "address_standardized", StrV(StandardizeAddress(attrs["address"].s))) ELSE attrs

\* the record standardize_record returns when it does not raise
StandardizeRecord(record) ==
    [id |-> record.id, source_system |-> record.source_system,
     entity_type |-> record.entity_type,
     attributes |-> WithAddressStandardized(WithDobStandardized(
                        WithNameStandardized(record.attributes)))]

(***************************************************************************)
(* 4.2 Blocking Indexer: BlockingStrategy                                  *)
(***************************************************************************)
\* the soundex digit of an upper-case character, "0" when it has none
SoundexCode(c) ==
    CASE c \in {"B", "F", "P", "V"} -> "1"
      [] c \in {"C", "G", "J", "K", "Q", "S", "X", "Z"} -> "2"
      [] c \in {"D", "T"} -> "3"
      [] c = "L" -> "4"
      [] c \in {"M", "N"} -> "5"
      [] c = "R" -> "6"
      [] OTHER -> "0"

\* the loop of lines 89-95 from name[i] on
RECURSIVE SoundexLoop(_, _, _, _)
SoundexLoop(name, i, result, prev_code) ==
    IF i > Len(name) THEN result
    ELSE LET code == SoundexCode(name[i])
         IN  IF code # "0" /\ code # prev_code
             THEN (IF Len(result) + 1 = 4 THEN Append(result, code)
                   ELSE SoundexLoop(name, i + 1, Append(result, code), code))
             ELSE SoundexLoop(name, i + 1, result, code)

\* BlockingStrategy.soundex
Soundex(name) ==
    IF name = <<>> THEN <<"0","0","0","0">>
    ELSE LET up     == Upper(name)
             result == SoundexLoop(up, 2, <<up[1]>>, SoundexCode(up[1]))
         IN  Slice(result \o <<"0","0","0","0">>, 0, 4)

HasPrefixAt(s, i, pat) == i + Len(pat) - 1 <= Len(s) /\ SubSeq(s, i, i + Len(pat) - 1) = pat

\* re.sub(pat, repl, s) for a literal pat: leftmost matches, left to right
RECURSIVE ReplaceAllFrom(_, _, _, _)
ReplaceAllFrom(s, i, pat, repl) ==
    IF i > Len(s) THEN <<>>
    ELSE IF HasPrefixAt(s, i, pat) THEN repl \o ReplaceAllFrom(s, i + Len(pat), pat, repl)
    ELSE <<s[i]>> \o ReplaceAllFrom(s, i + 1, pat, repl)
ReplaceAll(s, pat, repl) == ReplaceAllFrom(s, 1, pat, repl)

\* re.sub('^' + pat, repl, s) and re.sub(pat + '$', repl, s)
ReplacePrefix(s, pat, repl) ==
    IF HasPrefixAt(s, 1, pat) THEN repl \o SubSeq(s, Len(pat) + 1, Len(s)) ELSE s
ReplaceSuffix(s, pat, repl) ==
    IF Len(s) >= Len(pat) /\ SubSeq(s, Len(s) - Len(pat) + 1, Len(s)) = pat
    THEN SubSeq(s, 1, Len(s) - Len(pat)) \o repl ELSE s

\* the replacements of lines 110-116, in order: <<kind, pattern, replacement>>
MetaphoneReplacements ==
    << <<"prefix", <<"K","N">>, <<"N">> >>, <<"prefix", <<"G","N">>, <<"N">> >>,
       <<"prefix", <<"P","N">>, <<"N">> >>, <<"prefix", <<"A","E">>, <<"E">> >>,
       <<"prefix", <<"W","R">>, <<"R">> >>, <<"prefix", <<"W","H">>, <<"W">> >>,
       <<"suffix", <<"M","B">>, <<"M">> >>, <<"all", <<"G","H">>, <<>> >>,
       <<"all", <<"P","H">>, <<"F">> >>,    <<"all", <<"C","K">>, <<"K">> >>,
       <<"all", <<"S","H">>, <<"X">> >>,    <<"all", <<"T","H">>, <<"0">> >>,
       <<"all", <<"C","H">>, <<"X">> >>,    <<"all", <<"S","C","H">>, <<"S","K">> >>,
       <<"all", <<"D","G">>, <<"J">> >> >>

RECURSIVE ApplyReplacements(_, _, _)
ApplyReplacements(s, rules, i) ==
    IF i > Len(rules) THEN s
    ELSE LET r == rules[i]
             t == CASE r[1] = "prefix" -> ReplacePrefix(s, r[2], r[3])
                    [] r[1] = "suffix" -> ReplaceSuffix(s, r[2], r[3])
                    [] r[1] = "all"    -> ReplaceAll(s, r[2], r[3])
         IN  ApplyReplacements(t, rules, i + 1)

\* BlockingStrategy.metaphone
Metaphone(name) ==
    IF name = <<>> THEN <<>>
    ELSE Slice(ApplyReplacements(SelectSeq(Upper(name), IsUpperAZ), MetaphoneReplacements, 1), 0, 6)

\* BlockingStrategy.ngram_blocking
NgramBlocking(name, n) ==
    IF name = <<>> THEN <<>>
    ELSE IF Len(name) < n THEN <<Lower(name)>>
    ELSE LET s == RemoveSpaces(Lower(name))
         IN  IF Len(s) - n + 1 <= 0 THEN <<>>
             ELSE [i \in 1..(Len(s) - n + 1) |-> SubSeq(s, i, i + n - 1)]

\* BlockingStrategy.first_letter_year
FirstLetterYear(name, year) ==
    LET first    == IF name # <<>> THEN <<UpperOf[name[1]]>> ELSE <<"X">>
        year_str == IF Truthy(year) THEN PyStr(year) ELSE <<"0","0","0","0">>
    IN  first \o <<"_">> \o year_str

\* BlockingStrategy.location_blocking
LocationBlocking(country, city) ==
    LET country_code == Slice(Upper(PyOr(country, StrV(<<"X","X">>)).s), 0, 2)
        city_code    == Slice(Upper(PyOr(city, StrV(<<"X","X">>)).s), 0, 3)
    IN  country_code \o <<"_">> \o city_code

\* record.attributes.get('name_standardized') or record.attributes.get('name', '')
NameOf(record) ==
    PyOr(Get(record.attributes, "name_standardized"),
         GetOr(record.attributes, "name", StrV(<<>>)))

SoundexPrefix   == <<"s","o","u","n","d","e","x","_">>
MetaphonePrefix == <<"m","e","t","a","p","h","o","n","e","_">>
NgramPrefix     == <<"n","g","r","a","m","_">>
FlPrefix        == <<"f","l","_">>

\* EntityResolutionEngine.generate_blocking_keys with the engine's strategies
GenerateBlockingKeys(record, strategies) ==
    LET name   == NameOf(record).s
        ngrams == NgramBlocking(name, 3)
        top3   == Slice(ngrams, 0, 3)
    IN  (IF "soundex" \in strategies THEN <<SoundexPrefix \o Soundex(name)>> ELSE <<>>)
        \o (IF "metaphone" \in strategies THEN <<MetaphonePrefix \o Metaphone(name)>> ELSE <<>>)
        \o (IF "ngram" \in strategies
            THEN [i \in 1..Len(top3) |-> NgramPrefix \o top3[i]] ELSE <<>>)
        \o (IF "first_letter" \in strategies
            THEN <<FlPrefix \o FirstLetterYear(name, Get(record.attributes, "year_of_birth"))>>
            ELSE <<>>)

(***************************************************************************)
(* 4.3 Similarity Scorer: SimilarityScorer                                 *)
(***************************************************************************)
Min3(a, b, c) == Min2(a, Min2(b, c))

\* one row of the dynamic programme (lines 166-171): curr is curr_row so far,
\* so the next column to fill is j = Len(curr) - 1 (0-based)
RECURSIVE LevRow(_, _, _, _)
LevRow(prev_row, curr, c1, s2) ==
    IF Len(curr) > Len(s2) THEN curr
    ELSE LET j             == Len(curr) - 1
             insertions    == prev_row[j + 2] + 1
             deletions     == curr[j + 1] + 1
             substitutions == prev_row[j + 1] + (IF c1 # s2[j + 1] THEN 1 ELSE 0)
         IN  LevRow(prev_row, Append(curr, Min3(insertions, deletions, substitutions)), c1, s2)

\* the rows from s1[i] on (0-based i); a row has len(s2) + 1 entries
RECURSIVE LevRows(_, _, _, _)
LevRows(s1, s2, i, prev_row) ==
    IF i >= Len(s1) \/ Len(prev_row) # Len(s2) + 1 THEN prev_row
    ELSE LevRows(s1, s2, i + 1, LevRow(prev_row, <<i + 1>>, s1[i + 1], s2))

\* prev_row[-1]
LastOf(row) == row[Len(row)]

\* SimilarityScorer.levenshtein_distance
LevenshteinDistance(a, b) ==
    LET s1 == IF Len(a) < Len(b) THEN b ELSE a
        s2 == IF Len(a) < Len(b) THEN a ELSE b
    IN  IF Len(s2) = 0 THEN Len(s1)
        ELSE LastOf(LevRows(s1, s2, 0, [j \in 1..(Len(s2) + 1) |-> j - 1]))

\* SimilarityScorer.levenshtein_similarity
LevenshteinSimilarity(s1, s2) ==
    IF s1 = <<>> /\ s2 = <<>> THEN ROne
    ELSE IF s1 = <<>> \/ s2 = <<>> THEN RZero
    ELSE LET distance == LevenshteinDistance(Lower(s1), Lower(s2))
             max_len  == Max2(Len(s1), Len(s2))
         IN  RSub(ROne, Rat(distance, max_len))

\* the matching loop of lines 208-218 from s1[i] on (1-based i); m1 and m2
\* are the positions of s1 and s2 flagged in s1_matches and s2_matches
RECURSIVE JaroMatch(_, _, _, _, _, _)
JaroMatch(s1, s2, match_distance, i, m1, m2) ==
    IF i > Len(s1) THEN <<m1, m2>>
    ELSE LET start == Max2(0, (i - 1) - match_distance)
             end   == Min2((i - 1) + match_distance + 1, Len(s2))
             cand  == {j \in (start + 1)..end : j \notin m2 /\ s1[i] = s2[j]}
         IN  IF cand = {} THEN JaroMatch(s1, s2, match_distance, i + 1, m1, m2)
             ELSE LET j == CHOOSE x \in cand : \A y \in cand : x <= y
                  IN  JaroMatch(s1, s2, match_distance, i + 1, m1 \cup {i}, m2 \cup {j})

\* the characters of s at the positions of m, in order
Matched(s, m) == [k \in 1..Cardinality(m) |->
                    s[CHOOSE i \in m : Cardinality({x \in m : x < i}) = k - 1]]

\* lines 233-234
JaroFormula(len1, len2, matches, transpositions) ==
    RDiv(RAdd(RAdd(Rat(matches, len1), Rat(matches, len2)),
              Rat(2 * matches - transpositions, 2 * matches)),
         <<3, 1>>)

\* lines 223-231: the matched characters of s1 and of s2 are walked in step
Transpositions(c1, c2) == Cardinality({k \in 1..Len(c1) : c1[k] # c2[k]})

\* lines 220-236, mm the two sets of matched positions
JaroOfMatches(s1, s2, mm) ==
    IF Cardinality(mm[1]) = 0 THEN RZero
    ELSE JaroFormula(Len(s1), Len(s2), Cardinality(mm[1]),
                     Transpositions(Matched(s1, mm[1]), Matched(s2, mm[2])))

MatchDistance_OfFirst(len1, len2) == Max2(0, len1 \div 2 - 1)

\* lines 198-200
MatchDistance(len1, len2) == Max2(0, Max2(len1, len2) \div 2 - 1)

\* SimilarityScorer.jaro_similarity
JaroSimilarity(a, b) ==
    IF a = <<>> /\ b = <<>> THEN ROne
    ELSE IF a = <<>> \/ b = <<>> THEN RZero
    ELSE LET s1 == Lower(a)
             s2 == Lower(b)
         IN  JaroOfMatches(s1, s2,
                           JaroMatch(s1, s2, MatchDistance(Len(s1), Len(s2)), 1, {}, {}))

\* the values of matches and transpositions when jaro_similarity returns,
\* both 0 when it returns before its loops
JaroCounts(a, b) ==
    IF a = <<>> \/ b = <<>> THEN <<0, 0>>
    ELSE LET s1 == Lower(a)
             s2 == Lower(b)
             mm == JaroMatch(s1, s2, MatchDistance(Len(s1), Len(s2)), 1, {}, {})
         IN  <<Cardinality(mm[1]), Transpositions(Matched(s1, mm[1]), Matched(s2, mm[2]))>>

\* the common prefix loop of lines 246-250
RECURSIVE PrefixLen(_, _, _, _)
PrefixLen(s1, s2, i, bound) ==
    IF i > bound THEN i - 1
    ELSE IF s1[i] = s2[i] THEN PrefixLen(s1, s2, i + 1, bound) ELSE i - 1

\* line 252 with p = 0.1
Winkler(jaro, prefix_len) == RAdd(jaro, RMul(Rat(prefix_len, 10), RSub(ROne, jaro)))

\* SimilarityScorer.jaro_winkler_similarity
JaroWinklerSimilarity(s1, s2) ==
    Winkler(JaroSimilarity(s1, s2),
            PrefixLen(Lower(s1), Lower(s2), 1, Min3(Len(s1), Len(s2), 4)))

\* get_ngrams of jaccard_similarity
GetNgrams(str, ngram) ==
    LET s == RemoveSpaces(Lower(str))
    IN  IF Len(s) < ngram THEN {s}
        ELSE {SubSeq(s, i, i + ngram - 1) : i \in 1..(Len(s) - ngram + 1)}

\* SimilarityScorer.jaccard_similarity with ngram = 2
JaccardSimilarity(s1, s2) ==
    IF s1 = <<>> /\ s2 = <<>> THEN ROne
    ELSE IF s1 = <<>> \/ s2 = <<>> THEN RZero
    ELSE LET set1 == GetNgrams(s1, 2)
             set2 == GetNgrams(s2, 2)
             intersection == Cardinality(set1 \cap set2)
             union        == Cardinality(set1 \cup set2)
         IN  IF union > 0 THEN Rat(intersection, union) ELSE RZero

\* SimilarityScorer.token_based_similarity
TokenBasedSimilarity(s1, s2) ==
    IF s1 = <<>> /\ s2 = <<>> THEN ROne
    ELSE IF s1 = <<>> \/ s2 = <<>> THEN RZero
    ELSE LET tokens1 == Range(Split(Lower(s1)))
             tokens2 == Range(Split(Lower(s2)))
         IN  IF tokens1 = {} \/ tokens2 = {} THEN RZero
             ELSE Rat(Cardinality(tokens1 \cap tokens2), Cardinality(tokens1 \cup tokens2))

\* SimilarityScorer.phonetic_similarity
PhoneticSimilarity(s1, s2) ==
    LET soundex1 == Soundex(s1)
        soundex2 == Soundex(s2)
    IN  IF soundex1 = soundex2 THEN ROne
        ELSE Rat(Cardinality({i \in 1..4 : soundex1[i] = soundex2[i]}), 4)

\* SimilarityScorer.composite_name_score: the weights of lines 323-329 in hundredths
CompositeNameScore(name1, name2) ==
    RSum(<< RMul(JaroWinklerSimilarity(name1, name2), Rat(30, 100)),
            RMul(LevenshteinSimilarity(name1, name2), Rat(25, 100)),
            RMul(JaccardSimilarity(name1, name2),     Rat(15, 100)),
            RMul(TokenBasedSimilarity(name1, name2),  Rat(20, 100)),
            RMul(PhoneticSimilarity(name1, name2),    Rat(10, 100)) >>)

(***************************************************************************)
(* 4.4 Pairwise Matcher: EntityResolutionEngine.score_candidate_pair       *)
(***************************************************************************)
\* record.attributes.get('address_standardized') or record.attributes.get('address', '')
AddressOf(record) ==
    PyOr(Get(record.attributes, "address_standardized"),
         GetOr(record.attributes, "address", StrV(<<>>)))

IdTypes == <<"national_id", "passport", "tax_id", "company_reg">>

\* the attribute weights of lines 460-468, in hundredths
AttributeWeights ==
    [name |-> 35, dob |-> 20, address |-> 15, national_id |-> 15,
     passport |-> 10, tax_id |-> 5, company_reg |-> 5]

\* weights.get(k, 0.1)
WeightOf(key) == IF key \in DOMAIN AttributeWeights THEN Rat(AttributeWeights[key], 100)
                 ELSE Rat(1, 10)

ScoreOrder == <<"name", "dob", "address">> \o IdTypes

\* the dict scores of lines 429-457
SimilarityScores(record_a, record_b) ==
    LET name_a == NameOf(record_a)
        name_b == NameOf(record_b)
        dob_a  == Get(record_a.attributes, "date_of_birth")
        dob_b  == Get(record_b.attributes, "date_of_birth")
        addr_a == AddressOf(record_a)
        addr_b == AddressOf(record_b)
        present == (IF Truthy(name_a) /\ Truthy(name_b) THEN {"name"} ELSE {})
                   \cup (IF Truthy(dob_a) /\ Truthy(dob_b) THEN {"dob"} ELSE {})
                   \cup (IF Truthy(addr_a) /\ Truthy(addr_b) THEN {"address"} ELSE {})
                   \cup {t \in Range(IdTypes) :
                           Truthy(Get(record_a.attributes, t)) /\ Truthy(Get(record_b.attributes, t))}
    IN  [key \in present |->
           CASE key = "name"    -> CompositeNameScore(name_a.s, name_b.s)
             [] key = "dob"     -> IF PyStr(dob_a) = PyStr(dob_b) THEN ROne ELSE RZero
             [] key = "address" -> JaroWinklerSimilarity(addr_a.s, addr_b.s)
             [] OTHER -> IF PyEq(Get(record_a.attributes, key), Get(record_b.attributes, key))
                         THEN ROne ELSE RZero]

\* lines 470-474 without the division by total_weight
OverallScore_Unnormalized(scores) ==
    LET keys == SelectSeq(ScoreOrder, LAMBDA key : key \in DOMAIN scores)
    IN  RSum([i \in 1..Len(keys) |-> RMul(scores[keys[i]], WeightOf(keys[i]))])

\* lines 470-474
OverallScore(scores) ==
    LET keys         == SelectSeq(ScoreOrder, LAMBDA key : key \in DOMAIN scores)
        total_weight == RSum([i \in 1..Len(keys) |-> WeightOf(keys[i])])
    IN  IF RLt(RZero, total_weight)
        THEN RDiv(RSum([i \in 1..Len(keys) |-> RMul(scores[keys[i]], WeightOf(keys[i]))]),
                  total_weight)
        ELSE RZero

\* EntityResolutionEngine.score_candidate_pair; a and b are the positions of
\* the two records in the standardized list
ScoreCandidatePair(std, a, b) ==
    LetIn(SimilarityScores(std[a], std[b]),
          LAMBDA scores : [record_a |-> a, record_b |-> b, blocking_key |-> <<>>,
                           similarity_scores |-> scores,
                           overall_score |-> OverallScore(scores)])

(***************************************************************************)
(* 4.5 Cluster Builder: EntityResolutionEngine.cluster_matches             *)
(***************************************************************************)
\* find's lines 497-499: a new element is its own parent, with rank 0
Touch(uf, x) ==
    IF x \in DOMAIN uf.parent THEN uf
    ELSE [parent |-> Put(uf.parent, x, x), rank |-> Put(uf.rank, x, 0)]

RECURSIVE RootOf(_, _)
RootOf(parent, x) == IF parent[x] = x THEN x ELSE RootOf(parent, parent[x])

RECURSIVE PathOf(_, _)
PathOf(parent, x) == IF parent[x] = x THEN {} ELSE {x} \cup PathOf(parent, parent[x])

\* find(x): the root, and the forest with the path from x compressed onto it
Find(uf, x) ==
    LET u    == Touch(uf, x)
        root == RootOf(u.parent, x)
        path == PathOf(u.parent, x)
    IN  [root |-> root,
         uf   |-> [u EXCEPT !.parent = [n \in DOMAIN u.parent |->
                                          IF n \in path THEN root ELSE u.parent[n]]]]

\* lines 510-512: the root py goes under the root px
Attach(uf, px, py) ==
    [parent |-> [uf.parent EXCEPT ![py] = px],
     rank   |-> IF uf.rank[px] = uf.rank[py] THEN [uf.rank EXCEPT ![px] = @ + 1] ELSE uf.rank]

\* lines 506-512 on the two roots
Link(uf, rx, ry) ==
    IF rx = ry THEN uf
    ELSE IF uf.rank[rx] < uf.rank[ry] THEN Attach(uf, ry, rx)
    ELSE Attach(uf, rx, ry)

\* union(x, y) without find: y itself, not its root, goes under x
Union_OfElements(uf, x, y) == Attach(Touch(Touch(uf, x), y), x, y)

\* union(x, y)
Union(uf, x, y) ==
    LetIn(Find(uf, x),
          LAMBDA fx : LetIn(Find(fx.uf, y), LAMBDA fy : Link(fy.uf, fx.root, fy.root)))

\* line 517 without the test: every scored pair is united
Accepted_Always(match, threshold) == TRUE

\* match.overall_score >= self.match_threshold
Accepted(match, threshold) == RLeq(threshold, match.overall_score)

AppendNew(seq, x) == IF x \in Range(seq) THEN seq ELSE Append(seq, x)

\* the loop of lines 516-522 from matches[i] on; st.order and st.rec are the
\* dict all_records: its keys in insertion order and its values
RECURSIVE UnionMatches(_, _, _, _, _)
UnionMatches(matches, ids, threshold, i, st) ==
    IF i > Len(matches) THEN st
    ELSE LET match == matches[i]
             id_a  == ids[match.record_a]
             id_b  == ids[match.record_b]
         IN  IF Accepted(match, threshold)
             THEN UnionMatches(matches, ids, threshold, i + 1,
                      [uf    |-> Union(st.uf, id_a, id_b),
                       order |-> AppendNew(AppendNew(st.order, id_a), id_b),
                       rec   |-> Put(Put(st.rec, id_a, match.record_a), id_b, match.record_b)])
             ELSE UnionMatches(matches, ids, threshold, i + 1, st)

\* the loop of lines 525-528 from the i-th key of all_records on; roots are the
\* keys of clusters in insertion order, members its values
RECURSIVE GroupByRoot(_, _, _, _, _)
GroupByRoot(st, i, uf, roots, members) ==
    IF i > Len(st.order) THEN [k \in 1..Len(roots) |-> members[roots[k]]]
    ELSE LetIn(Find(uf, st.order[i]),
               LAMBDA f : GroupByRoot(st, i + 1, f.uf, AppendNew(roots, f.root),
                              Put(members, f.root,
                                  Append(GetOr(members, f.root, <<>>), st.rec[st.order[i]]))))

EmptyDict == [x \in {} |-> 0]

\* EntityResolutionEngine.cluster_matches: the clusters, each a list of
\* positions of records; ids[p] is the id of the record at position p
ClusterMatches(matches, ids, threshold) ==
    LetIn(UnionMatches(matches, ids, threshold, 1,
              [uf |-> [parent |-> EmptyDict, rank |-> EmptyDict],
               order |-> <<>>, rec |-> EmptyDict]),
          LAMBDA st : GroupByRoot(st, 1, st.uf, <<>>, EmptyDict))

(***************************************************************************)
(* 4.6 Canonical Record Builder: EntityResolutionEngine.create_canonical_record *)
(***************************************************************************)
\* sorted(strings): insertion of x into a sorted list
RECURSIVE InsertSorted(_, _)
InsertSorted(sorted, x) ==
    IF sorted = <<>> THEN <<x>>
    ELSE IF StrLess(x, sorted[1]) THEN <<x>> \o sorted
    ELSE <<sorted[1]>> \o InsertSorted(Tail(sorted), x)

RECURSIVE SortStrings(_)
SortStrings(s) == IF s = <<>> THEN <<>>
                  ELSE InsertSorted(SortStrings(SubSeq(s, 1, Len(s) - 1)), s[Len(s)])

\* lines 544-545 without sorted(): the member ids joined in cluster order
ResolvedId_Unsorted(member_ids) == Join(<<"_">>, member_ids)

\* lines 544-545: md5 of the sorted member ids joined by "_"
ResolvedId(member_ids) == Join(<<"_">>, SortStrings(member_ids))

\* line 551
NonNull(record) == Cardinality({key \in DOMAIN record.attributes : Truthy(record.attributes[key])})

\* lines 549-555: the members by descending completeness; list.sort is stable
\* and reverse=True keeps the order of equal elements
RECURSIVE InsertByCompleteness(_, _, _)
InsertByCompleteness(sorted, std, p) ==
    IF sorted = <<>> THEN <<p>>
    ELSE IF NonNull(std[p]) > NonNull(std[sorted[1]]) THEN <<p>> \o sorted
    ELSE <<sorted[1]>> \o InsertByCompleteness(Tail(sorted), std, p)

RECURSIVE SortByCompleteness(_, _)
SortByCompleteness(cluster, std) ==
    IF cluster = <<>> THEN <<>>
    ELSE InsertByCompleteness(SortByCompleteness(SubSeq(cluster, 1, Len(cluster) - 1), std),
                              std, cluster[Len(cluster)])

\* lines 558-562: the first truthy value of each key, members taken in order
CanonicalAttrs(by_completeness, std) ==
    LET Holders(key) == {i \in 1..Len(by_completeness) :
                           /\ key \in DOMAIN std[by_completeness[i]].attributes
                           /\ Truthy(std[by_completeness[i]].attributes[key])}
        all_keys == UNION {DOMAIN std[by_completeness[i]].attributes : i \in 1..Len(by_completeness)}
        keys     == {key \in all_keys : Holders(key) # {}}
    IN  [key \in keys |->
           std[by_completeness[CHOOSE i \in Holders(key) : \A j \in Holders(key) : i <= j]].attributes[key]]

\* line 566 without the term of the source systems
Confidence_SizeOnly(num_sources, size) ==
    RMin(ROne, RAdd(Rat(1, 2), RMul(<<size, 1>>, Rat(5, 100))))

\* lines 565-566
Confidence(num_sources, size) ==
    RMin(ROne, RAdd(RAdd(Rat(1, 2), RMul(<<num_sources, 1>>, Rat(1, 10))),
                    RMul(<<size, 1>>, Rat(5, 100))))

UnknownName == <<"U","n","k","n","o","w","n">>

\* line 565
NumSources(cluster, std) ==
    Cardinality({std[cluster[i]].source_system : i \in 1..Len(cluster)})

\* EntityResolutionEngine.create_canonical_record of a non-empty cluster (a list
\* of positions of records in std); source_records holds the positions
CreateCanonicalRecord(cluster, std) ==
    LetIn(CanonicalAttrs(SortByCompleteness(cluster, std), std),
          LAMBDA canonical_attrs :
            [resolved_id      |-> ResolvedId([i \in 1..Len(cluster) |-> std[cluster[i]].id]),
             canonical_name   |-> PyOr(Get(canonical_attrs, "name_standardized"),
                                       GetOr(canonical_attrs, "name", StrV(UnknownName))),
             entity_type      |-> std[cluster[1]].entity_type,
             source_records   |-> cluster,
             confidence_score |-> Confidence(NumSources(cluster, std), Len(cluster)),
             attributes       |-> canonical_attrs])

(***************************************************************************)
(* EntityResolutionEngine.resolve                                          *)
(***************************************************************************)

RECURSIVE Dedup(_)
Dedup(s) == IF s = <<>> THEN <<>>
            ELSE AppendNew(Dedup(SubSeq(s, 1, Len(s) - 1)), s[Len(s)])

\* lines 595-599: the keys of block_index in insertion order, and the list
\* of (positions of) records under a key: a record is appended once for each
\* time the key occurs in its keys
BlockKeys(keys_of) == Dedup(Flatten(keys_of))
Block(keys_of, key) ==
    Flatten([p \in 1..Len(keys_of) |->
               SelectSeq([i \in 1..Len(keys_of[p]) |-> IF keys_of[p][i] = key THEN p ELSE 0],
                         LAMBDA x : x # 0)])

\* lines 607-608: the pairs of a block, in the order of the two loops
PairsOfBlock(block) ==
    Flatten([i \in 1..Len(block) |-> [k \in 1..(Len(block) - i) |-> <<block[i], block[i + k]>>]])

\* the pairs of the block under key, as <<key, a, b>>
KeyedPairs(keys_of, key) ==
    LetIn(PairsOfBlock(Block(keys_of, key)),
          LAMBDA pairs : [k \in 1..Len(pairs) |-> <<key, pairs[k][1], pairs[k][2]>>])

\* lines 605-616 without blocking: every pair of records is a candidate
BlockPairs_AllPairs(keys_of) ==
    LetIn(PairsOfBlock([p \in 1..Len(keys_of) |-> p]),
          LAMBDA pairs : [k \in 1..Len(pairs) |-> <<<<>>, pairs[k][1], pairs[k][2]>>])

\* lines 605-616: every pair of every block in order
BlockPairs(keys_of) ==
    LetIn(BlockKeys(keys_of),
          LAMBDA block_keys :
            Flatten([b \in 1..Len(block_keys) |-> KeyedPairs(keys_of, block_keys[b])]))

\* tuple(sorted([record_a.id, record_b.id])): two pairs have the same key
\* exactly when they have the same two ids
PairKey(ids, a, b) == {ids[a], ids[b]}

\* lines 609-616 from the i-th pair on: a pair whose key was seen is skipped
RECURSIVE ScorePairs(_, _, _, _, _)
ScorePairs(pairs, std, ids, i, seen_pairs) ==
    IF i > Len(pairs) THEN <<>>
    ELSE LET pair_key == PairKey(ids, pairs[i][2], pairs[i][3])
         IN  IF pair_key \in seen_pairs THEN ScorePairs(pairs, std, ids, i + 1, seen_pairs)
             ELSE <<[ScoreCandidatePair(std, pairs[i][2], pairs[i][3])
                       EXCEPT !.blocking_key = pairs[i][1]]>>
                  \o ScorePairs(pairs, std, ids, i + 1, seen_pairs \cup {pair_key})

\* resolve without lines 622-625: the unmatched records are left out
AddSingletons_Dropped(clusters, ids) == clusters

\* lines 622-625: the unmatched records appended as singletons, in input order
AddSingletons(clusters, ids) ==
    LET matched_ids == UNION {{ids[clusters[c][k]] : k \in 1..Len(clusters[c])} : c \in 1..Len(clusters)}
        unmatched   == SelectSeq([p \in 1..Len(ids) |-> p], LAMBDA p : ids[p] \notin matched_ids)
    IN  clusters \o [k \in 1..Len(unmatched) |-> <<unmatched[k]>>]

\* std[p].id for every position p
IdsOf(std) == [p \in 1..Len(std) |-> std[p].id]

\* lines 602-616: the list scored_pairs
ScoredPairs(std, strategies) ==
    ScorePairs(BlockPairs([p \in 1..Len(std) |-> GenerateBlockingKeys(std[p], strategies)]),
               std, IdsOf(std), 1, {})

\* lines 628-630
CanonicalRecords(clusters, std) ==
    [c \in 1..Len(clusters) |-> CreateCanonicalRecord(clusters[c], std)]

\* lines 602-630 on the standardized list
ResolveStandardized(std, scored, threshold) ==
    [outcome      |-> "ok",
     scored_pairs |-> scored,
     resolved     |-> CanonicalRecords(
                          AddSingletons(ClusterMatches(scored, IdsOf(std), threshold), IdsOf(std)),
                          std)]

\* EntityResolutionEngine.resolve: what the call does with the list recs
Resolve(recs, threshold, strategies) ==
    IF \E p \in 1..Len(recs) : StandardizeRaises(recs[p])
    THEN [outcome |-> "raised", scored_pairs |-> <<>>, resolved |-> <<>>]
    ELSE LetIn([p \in 1..Len(recs) |-> StandardizeRecord(recs[p])],
               LAMBDA std : ResolveStandardized(std, ScoredPairs(std, strategies), threshold))

\* EntityResolutionEngine.__init__: blocking_strategies or ['soundex', 'ngram']
DefaultStrategies == {"soundex", "ngram"}
EngineStrategies(arg) == IF arg = {} THEN DefaultStrategies ELSE arg

(***************************************************************************)
(* Network Generation Engine (network_generation.py)                       *)
(*                                                                         *)
(* A dict is a function together with the list of its keys in insertion    *)
(* order.  An edge id is <<"md5", s>> for the first 16 hex digits of the   *)
(* md5 of the string s, and <<"str", s>> for the string s itself: 16 hex   *)
(* digits are never a string that starts with "inferred_".  The field      *)
(* created_at of a node or an edge is read by nothing and is left out.     *)
(***************************************************************************)
\* RelationshipType: the values the engine and its default rules use
SENT_TO         == <<"S","E","N","T","_","T","O">>
RECEIVED_FROM   == <<"R","E","C","E","I","V","E","D","_","F","R","O","M">>
TRANSACTED_WITH == <<"T","R","A","N","S","A","C","T","E","D","_","W","I","T","H">>
CO_LOCATED      == <<"C","O","_","L","O","C","A","T","E","D">>
SHARES_PHONE    == <<"S","H","A","R","E","S","_","P","H","O","N","E">>
SHARES_EMAIL    == <<"S","H","A","R","E","S","_","E","M","A","I","L">>

\* the characters of the attribute names the default rules look at
KeyChars == [address |-> <<"a","d","d","r","e","s","s">>,
             phone   |-> <<"p","h","o","n","e">>,
             email   |-> <<"e","m","a","i","l">>]

Underscore == <<"_">>
InferredPrefix   == <<"i","n","f","e","r","r","e","d","_">>
InferredTxPrefix == <<"i","n","f","e","r","r","e","d","_","t","x","_">>

\* hashlib.md5(s.encode()).hexdigest()[:16]
Md5Hex16(s) == <<"md5", s>>
\* an id that is the string s itself
StrId(s) == <<"str", s>>

\* NetworkNode(...)
NetworkNode(id, node_type, label, attributes, risk_score, source_systems) ==
    [id |-> id, node_type |-> node_type, label |-> label, attributes |-> attributes,
     risk_score |-> risk_score, source_systems |-> source_systems]

\* NetworkEdge(...)
NetworkEdge(id, source_id, target_id, relationship_type, weight, attributes, evidence, confidence) ==
    [id |-> id, source_id |-> source_id, target_id |-> target_id,
     relationship_type |-> relationship_type, weight |-> weight,
     attributes |-> attributes, evidence |-> evidence, confidence |-> confidence]

\* NetworkEdge.key
EdgeKey(edge) == <<edge.source_id, edge.target_id, edge.relationship_type>>

\* Network.add_node on the dict net = [map, order]
AddNode(net, node) ==
    [map |-> Put(net.map, node.id, node), order |-> AppendNew(net.order, node.id)]

\* a Network.add_edge that empties the dict before it stores the edge
AddEdge_Alone(net, edge) ==
    [map |-> Put(EmptyDict, edge.id, edge), order |-> <<edge.id>>]

\* Network.add_edge on the dict net = [map, order]
AddEdge(net, edge) ==
    [map |-> Put(net.map, edge.id, edge), order |-> AppendNew(net.order, edge.id)]

\* the node create_node_from_entity builds; source_systems or []
NewNode(entity_id, entity_type, name, attributes, risk_score, source_systems) ==
    NetworkNode(entity_id, entity_type, name, attributes, risk_score, source_systems)

\* attributes or {}
OrEmptyDict(attributes) == IF DOMAIN attributes = {} THEN EmptyDict ELSE attributes

\* the edge create_edge would build if the hashed string held the weight too
NewEdge_IdFromWeight(source_id, target_id, relationship_type, attributes, weight, confidence) ==
    NetworkEdge(Md5Hex16(source_id \o Underscore \o target_id \o Underscore \o relationship_type
                           \o Underscore \o Digits(weight[1])),
                source_id, target_id, relationship_type, weight,
                OrEmptyDict(attributes), <<>>, confidence)

\* the edge create_edge builds
NewEdge(source_id, target_id, relationship_type, attributes, weight, confidence) ==
    NetworkEdge(Md5Hex16(source_id \o Underscore \o target_id \o Underscore \o relationship_type),
                source_id, target_id, relationship_type, weight,
                OrEmptyDict(attributes), <<>>, confidence)

\* SharedAttributeRule.apply, lines 171-175: the truthy values of the attribute
\* in the order the nodes first show them
RECURSIVE GroupValues(_, _, _, _, _)
GroupValues(ns, order, attribute_name, i, acc) ==
    IF i > Len(order) THEN acc
    ELSE LetIn(Get(ns[order[i]].attributes, attribute_name),
               LAMBDA value :
                 GroupValues(ns, order, attribute_name, i + 1,
                     IF Truthy(value) /\ ~(\E k \in 1..Len(acc) : PyEq(acc[k], value))
                     THEN Append(acc, value) ELSE acc))

\* attr_groups[value]: the ids of the nodes that hold value, in dict order
GroupOf(ns, order, attribute_name, value) ==
    LET Holds(id) == PyEq(Get(ns[id].attributes, attribute_name), value)
    IN  SelectSeq(order, Holds)

\* lines 185-196
SharedEdge(rule, a, b, value) ==
    NetworkEdge(StrId(InferredPrefix \o a \o Underscore \o b \o Underscore
                        \o KeyChars[rule.attribute_name]),
                a, b, rule.relationship_type, ROne, EmptyDict,
                <<[rule |-> "shared_attribute", attribute |-> rule.attribute_name,
                   value |-> value]>>,
                rule.confidence)

\* lines 179-197 for one group
GroupEdges(rule, group, value) ==
    IF Len(group) < 2 THEN <<>>
    ELSE Flatten([i \in 1..Len(group) |->
                    [j \in 1..(Len(group) - i) |-> SharedEdge(rule, group[i], group[i + j], value)]])

\* SharedAttributeRule.apply
SharedAttributeApply(rule, ns, order) ==
    LetIn(GroupValues(ns, order, rule.attribute_name, 1, <<>>),
          LAMBDA values :
            Flatten([k \in 1..Len(values) |->
                       GroupEdges(rule, GroupOf(ns, order, rule.attribute_name, values[k]),
                                  values[k])]))

\* tuple(sorted([edge.source_id, edge.target_id]))
SortedPair(a, b) == IF StrLess(b, a) THEN <<b, a>> ELSE <<a, b>>

\* line 224
IsTransaction(edge) == edge.relationship_type \in {SENT_TO, RECEIVED_FROM}

\* the ids of the SENT_TO and RECEIVED_FROM edges, in dict order
TransactionIds(es, order) ==
    LET IsTx(id) == IsTransaction(es[id])
    IN  SelectSeq(order, IsTx)

PairOf(edge) == SortedPair(edge.source_id, edge.target_id)

\* tx_counts[pair]
TxCount(es, tx_ids, pair) == Cardinality({k \in 1..Len(tx_ids) : PairOf(es[tx_ids[k]]) = pair})

\* edge.attributes.get('amount', 0) of an edge whose amount, if any, is an int
AmountOf(edge) == IF "amount" \in DOMAIN edge.attributes THEN <<edge.attributes["amount"].n, 1>>
                  ELSE RZero

\* tx_amounts[pair]
TxAmount(es, tx_ids, pair) ==
    RSum([k \in 1..Len(tx_ids) |->
            IF PairOf(es[tx_ids[k]]) = pair THEN AmountOf(es[tx_ids[k]]) ELSE RZero])

\* lines 232-245
TransactionEdge(rule, pair, count, amount) ==
    NetworkEdge(StrId(InferredTxPrefix \o pair[1] \o Underscore \o pair[2]),
                pair[1], pair[2], TRANSACTED_WITH, <<count, 1>>, EmptyDict,
                <<[rule |-> "transaction_pattern", transaction_count |-> count,
                   total_amount |-> amount]>>,
                RMin(ROne, RAdd(rule.confidence, RMul(<<count, 1>>, Rat(2, 100)))))

\* lines 230-246 for one pair
PairEdges(rule, es, tx_ids, pair) ==
    IF TxCount(es, tx_ids, pair) >= rule.min_transactions
    THEN <<TransactionEdge(rule, pair, TxCount(es, tx_ids, pair), TxAmount(es, tx_ids, pair))>>
    ELSE <<>>

\* TransactionPatternRule.apply
TransactionPatternApply(rule, es, order) ==
    LetIn(TransactionIds(es, order),
          LAMBDA tx_ids :
            LetIn(Dedup([k \in 1..Len(tx_ids) |-> PairOf(es[tx_ids[k]])]),
                  LAMBDA pairs :
                    Flatten([p \in 1..Len(pairs) |-> PairEdges(rule, es, tx_ids, pairs[p])])))

MinTransactions == 3

\* NetworkGenerationEngine._setup_default_rules
InferenceRules ==
    << [kind |-> "shared_attribute", attribute_name |-> "address",
        relationship_type |-> CO_LOCATED, confidence |-> Rat(7, 10)],
       [kind |-> "shared_attribute", attribute_name |-> "phone",
        relationship_type |-> SHARES_PHONE, confidence |-> Rat(8, 10)],
       [kind |-> "shared_attribute", attribute_name |-> "email",
        relationship_type |-> SHARES_EMAIL, confidence |-> Rat(8, 10)],
       [kind |-> "transaction_pattern", min_transactions |-> MinTransactions,
        relationship_type |-> TRANSACTED_WITH, confidence |-> Rat(85, 100)] >>

\* rule.apply(self.network)
ApplyRule(rule, ns, n_order, es, e_order) ==
    IF rule.kind = "shared_attribute" THEN SharedAttributeApply(rule, ns, n_order)
    ELSE TransactionPatternApply(rule, es, e_order)

\* run_inference, lines 449-453, without the test of line 451
RECURSIVE AddInferred_Unguarded(_, _, _)
AddInferred_Unguarded(st, new_edges, i) ==
    IF i > Len(new_edges) \/ Len(st.inferred_edges) < 0 THEN st
    ELSE AddInferred_Unguarded([net |-> AddEdge(st.net, new_edges[i]),
                                inferred_edges |-> Append(st.inferred_edges, new_edges[i])],
                               new_edges, i + 1)

\* run_inference, lines 449-453, on st = [net, inferred_edges]
RECURSIVE AddInferred(_, _, _)
AddInferred(st, new_edges, i) ==
    IF i > Len(new_edges) \/ Len(st.inferred_edges) < 0 THEN st
    ELSE AddInferred(IF new_edges[i].id \notin DOMAIN st.net.map
                     THEN [net |-> AddEdge(st.net, new_edges[i]),
                           inferred_edges |-> Append(st.inferred_edges, new_edges[i])]
                     ELSE st,
                     new_edges, i + 1)

\* run_inference, lines 447-453
RECURSIVE RunRules(_, _, _, _, _)
RunRules(rules, r, ns, n_order, st) ==
    IF r > Len(rules) \/ Len(st.inferred_edges) < 0 THEN st
    ELSE RunRules(rules, r + 1, ns, n_order,
                  AddInferred(st, ApplyRule(rules[r], ns, n_order, st.net.map, st.net.order), 1))

\* NetworkGenerationEngine.run_inference on the network: the edges afterwards
\* and the list returned
RunInferenceOn(ns, n_order, es, e_order) ==
    RunRules(InferenceRules, 1, ns, n_order,
             [net |-> [map |-> es, order |-> e_order], inferred_edges |-> <<>>])

(***************************************************************************)
(* The extractors: extract_relationships_from_transactions and             *)
(* extract_relationships_from_corporate_data.  A transaction, a director,  *)
(* a shareholder and a beneficial owner are dicts; a corporate record is a *)
(* dict whose values under directors, shareholders and beneficial_owners   *)
(* are lists of dicts.  Amounts and percentages are ints.                  *)
(***************************************************************************)
CONTROLS         == <<"C","O","N","T","R","O","L","S">>
DIRECTOR_OF      == <<"D","I","R","E","C","T","O","R","_","O","F">>
SHAREHOLDER_OF   == <<"S","H","A","R","E","H","O","L","D","E","R","_","O","F">>
BENEFICIAL_OWNER == <<"B","E","N","E","F","I","C","I","A","L","_","O","W","N","E","R">>

\* self.network.add_edge(edge) for the edges new_edges[i..], in order
RECURSIVE AddEdges(_, _, _)
AddEdges(net, new_edges, i) ==
    IF i > Len(new_edges) \/ Len(net.order) < 0 THEN net
    ELSE AddEdges(AddEdge(net, new_edges[i]), new_edges, i + 1)

\* tx.get('amount', 1.0)
AmountOrOne(tx) == IF "amount" \in DOMAIN tx THEN <<tx["amount"].n, 1>> ELSE ROne

\* lines 352-371: the edge created for tx, none when the sender or the
\* receiver is missing or empty
SentToEdge(tx) ==
    IF ~Truthy(Get(tx, "sender_entity_id")) \/ ~Truthy(Get(tx, "receiver_entity_id"))
    THEN <<>>
    ELSE <<NewEdge(tx["sender_entity_id"].s, tx["receiver_entity_id"].s, SENT_TO,
                   [transaction_id |-> Get(tx, "id"), amount |-> Get(tx, "amount"),
                    currency |-> Get(tx, "currency"), date |-> Get(tx, "transaction_date")],
                   AmountOrOne(tx), ROne)>>

\* extract_relationships_from_transactions: the list returned
TransactionEdges(transactions) ==
    Flatten([i \in 1..Len(transactions) |-> SentToEdge(transactions[i])])

\* record.get(key, [])
GetList(record, key) == IF key \in DOMAIN record THEN record[key] ELSE <<>>

\* lines 391-403
DirectorEdge(company_id, director) ==
    IF Truthy(Get(director, "entity_id"))
    THEN <<NewEdge(director["entity_id"].s, company_id, DIRECTOR_OF,
                   [role |-> Get(director, "role"),
                    appointment_date |-> Get(director, "appointment_date")],
                   ROne, ROne)>>
    ELSE <<>>

\* lines 406-422
ShareholderEdge(company_id, shareholder) ==
    LetIn(GetOr(shareholder, "percentage", IntV(0)).n,
          LAMBDA percentage :
            IF Truthy(Get(shareholder, "entity_id"))
            THEN <<NewEdge(shareholder["entity_id"].s, company_id,
                           IF percentage > 50 THEN CONTROLS ELSE SHAREHOLDER_OF,
                           [percentage |-> IntV(percentage),
                            share_type |-> Get(shareholder, "share_type")],
                           Rat(percentage, 100), ROne)>>
            ELSE <<>>)

\* lines 425-437
BeneficialOwnerEdge(company_id, bo) ==
    IF Truthy(Get(bo, "entity_id"))
    THEN <<NewEdge(bo["entity_id"].s, company_id, BENEFICIAL_OWNER,
                   [ownership_percentage |-> Get(bo, "percentage"),
                    nature_of_control |-> Get(bo, "nature_of_control")],
                   ROne, ROne)>>
    ELSE <<>>

\* lines 387-437 for one record
RecordEdges(record) ==
    LET company_id    == record["company_id"].s
        directors     == GetList(record, "directors")
        shareholders  == GetList(record, "shareholders")
        owners        == GetList(record, "beneficial_owners")
    IN  Flatten([k \in 1..Len(directors) |-> DirectorEdge(company_id, directors[k])])
        \o Flatten([k \in 1..Len(shareholders) |-> ShareholderEdge(company_id, shareholders[k])])
        \o Flatten([k \in 1..Len(owners) |-> BeneficialOwnerEdge(company_id, owners[k])])

\* extract_relationships_from_corporate_data: the list returned
CorporateEdges(corporate_records) ==
    Flatten([i \in 1..Len(corporate_records) |-> RecordEdges(corporate_records[i])])

(***************************************************************************)
(* Network.get_neighbors and Network.get_subgraph                          *)
(***************************************************************************)
\* lines 114-122: the ids one pass of the loop adds to neighbors
NextLevel(es, current_level, neighbors) ==
    {es[id].target_id : id \in {i \in DOMAIN es : /\ es[i].source_id \in current_level
                                                  /\ es[i].target_id \notin neighbors}}
    \cup {es[id].source_id : id \in {i \in DOMAIN es : /\ es[i].target_id \in current_level
                                                       /\ es[i].source_id \notin neighbors}}

\* lines 113-123 with depth passes left
RECURSIVE Levels(_, _, _, _)
Levels(es, current_level, neighbors, depth) ==
    IF depth = 0 THEN neighbors
    ELSE LetIn(NextLevel(es, current_level, neighbors),
               LAMBDA next_level : Levels(es, next_level, neighbors \cup next_level, depth - 1))

\* Network.get_neighbors
GetNeighbors(es, node_id, depth) ==
    IF depth < 1 THEN {} ELSE Levels(es, {node_id}, {}, depth)

\* Network.get_subgraph: the nodes and the edges of the network returned
GetSubgraph(ns, es, node_ids) ==
    [nodes |-> [id \in node_ids \cap DOMAIN ns |-> ns[id]],
     edges |-> [id \in {i \in DOMAIN es : /\ es[i].source_id \in node_ids
                                          /\ es[i].target_id \in node_ids} |-> es[id]]]

(***************************************************************************)
(* NetworkGenerationEngine.propagate_risk.  The nodes of current_level, a  *)
(* set of str, are visited in the order in which level_order lists them:   *)
(* the iteration order of a set of str is not fixed by its elements.       *)
(***************************************************************************)
\* lines 486-490 if an edge were followed from its source to its target only
NeighborAlong_Outgoing(edge, node_id) ==
    IF edge.source_id = node_id THEN <<edge.target_id>> ELSE <<>>

\* lines 486-490: the list holding neighbor_id, empty when it is None
NeighborAlong(edge, node_id) ==
    IF edge.source_id = node_id THEN <<edge.target_id>>
    ELSE IF edge.target_id = node_id THEN <<edge.source_id>>
    ELSE <<>>

\* lines 492-497 without the test of visited: a later path to a node replaces
\* the contribution of an earlier one
Visit_Revisiting(st, edge, node_id, current_risk) ==
    LET neighbor == IF edge.source_id = node_id THEN <<edge.target_id>>
                    ELSE IF edge.target_id = node_id THEN <<edge.source_id>> ELSE <<>>
    IN  IF neighbor # <<>> /\ neighbor[1] # <<>>
        THEN [st EXCEPT !.contributions =
                          Put(st.contributions, neighbor[1],
                              RMul(RMul(current_risk, edge.confidence), edge.weight)),
                        !.next_level = st.next_level \cup ({neighbor[1]} \ st.visited),
                        !.visited = st.visited \cup {neighbor[1]}]
        ELSE st

\* lines 492-497 for one node and one edge; st = [contributions, visited,
\* current_level, next_level]
Visit(st, edge, node_id, current_risk) ==
    LetIn(NeighborAlong(edge, node_id),
          LAMBDA neighbor :
            IF neighbor # <<>> /\ neighbor[1] # <<>> /\ neighbor[1] \notin st.visited
            THEN [st EXCEPT !.contributions =
                              Put(st.contributions, neighbor[1],
                                  RMul(RMul(current_risk, edge.confidence), edge.weight)),
                            !.next_level = st.next_level \cup {neighbor[1]},
                            !.visited = st.visited \cup {neighbor[1]}]
            ELSE st)

\* lines 484-497: the k-th and the later pairs of a node of level and an edge
RECURSIVE VisitEdges(_, _, _, _, _, _)
VisitEdges(st, es, e_order, level, current_risk, k) ==
    IF k > Len(level) * Len(e_order) \/ Cardinality(st.visited) < 0 THEN st
    ELSE VisitEdges(Visit(st, es[e_order[((k - 1) % Len(e_order)) + 1]],
                          level[((k - 1) \div Len(e_order)) + 1], current_risk),
                    es, e_order, level, current_risk, k + 1)

\* the list of the members of the set level in the order of level_order
InOrder(level, level_order) == SelectSeq(level_order, LAMBDA id : id \in level)

\* lines 480-501 with hops passes of the loop left
RECURSIVE Hops(_, _, _, _, _, _, _)
Hops(st, es, e_order, level_order, current_risk, decay_factor, hops) ==
    IF hops <= 0 THEN st.contributions
    ELSE LetIn(VisitEdges([st EXCEPT !.next_level = {}], es, e_order,
                          InOrder(st.current_level, level_order),
                          RMul(current_risk, decay_factor), 1),
               LAMBDA after :
                 IF after.next_level = {} THEN after.contributions
                 ELSE Hops([after EXCEPT !.current_level = after.next_level],
                           es, e_order, level_order,
                           RMul(current_risk, decay_factor), decay_factor, hops - 1))

\* NetworkGenerationEngine.propagate_risk
PropagateRisk(ns, es, e_order, source_node_id, max_hops, decay_factor, level_order) ==
    IF source_node_id \notin DOMAIN ns THEN EmptyDict
    ELSE Hops([contributions |-> Put(EmptyDict, source_node_id, ns[source_node_id].risk_score),
               visited |-> {source_node_id},
               current_level |-> {source_node_id},
               next_level |-> {}],
              es, e_order, level_order, ns[source_node_id].risk_score, decay_factor, max_hops)

(***************************************************************************)
(* calculate_network_metrics and export_to_neo4j_format                    *)
(***************************************************************************)
\* sum(self.network.nodes[n].risk_score for n in ids)
RECURSIVE RiskSum(_, _)
RiskSum(ns, ids) ==
    IF ids = {} THEN RZero
    ELSE LetIn(CHOOSE n \in ids : TRUE,
               LAMBDA n : RAdd(ns[n].risk_score, RiskSum(ns, ids \ {n})))

\* lines 536-544: the pairs of neighbours joined by an edge
NeighborEdges(es, neighbors) ==
    {pair \in SUBSET neighbors :
        /\ Cardinality(pair) = 2
        /\ \E id \in DOMAIN es : {es[id].source_id, es[id].target_id} = pair}

\* lines 532-547
Clustering(es, neighbors) ==
    IF Cardinality(neighbors) < 2 THEN RZero
    ELSE Rat(2 * Cardinality(NeighborEdges(es, neighbors)),
             Cardinality(neighbors) * (Cardinality(neighbors) - 1))

\* NetworkGenerationEngine.calculate_network_metrics
CalculateNetworkMetrics(ns, es, node_id) ==
    IF node_id \notin DOMAIN ns THEN EmptyDict
    ELSE LET in_degree  == Cardinality({id \in DOMAIN es : es[id].target_id = node_id})
             out_degree == Cardinality({id \in DOMAIN es : es[id].source_id = node_id})
             neighbors  == GetNeighbors(es, node_id, 1)
         IN  [in_degree |-> in_degree,
              out_degree |-> out_degree,
              total_degree |-> in_degree + out_degree,
              neighbor_count |-> Cardinality(neighbors),
              risk_exposure |-> RiskSum(ns, neighbors \cap DOMAIN ns),
              clustering_coefficient |-> Clustering(es, neighbors)]

\* {**base, **attributes}
Merged(base, attributes) ==
    [key \in DOMAIN base \cup DOMAIN attributes |->
       IF key \in DOMAIN attributes THEN attributes[key] ELSE base[key]]

\* lines 579-587
ExportedNode(node) ==
    [id |-> node.id, labels |-> <<Upper(node.node_type)>>,
     properties |-> Merged([label |-> node.label, risk_score |-> node.risk_score],
                           node.attributes)]

\* lines 591-601
ExportedEdge(edge) ==
    [id |-> edge.id, type |-> edge.relationship_type,
     startNode |-> edge.source_id, endNode |-> edge.target_id,
     properties |-> Merged([weight |-> edge.weight, confidence |-> edge.confidence],
                           edge.attributes)]

\* NetworkGenerationEngine.export_to_neo4j_format
ExportToNeo4jFormat(ns, n_order, es, e_order) ==
    [nodes |-> [k \in 1..Len(n_order) |-> ExportedNode(ns[n_order[k]])],
     relationships |-> [k \in 1..Len(e_order) |-> ExportedEdge(es[e_order[k]])]]

(***************************************************************************)
(* The resolution session: a batch of records drawn from RecordPool is     *)
(* resolved, handed over again in another order and resolved again.        *)
(***************************************************************************)
MaxBatch == 4

Rec(id, source, attrs) ==
    [id |-> id, source_system |-> source, entity_type |-> "individual", attributes |-> attrs]

Dob1985 == StrV(<<"1","9","8","5">>)
NidS1   == StrV(<<"S","1">>)

\* records 4 and 5 are those of demo_entity_resolution (lines 639-662) without
\* their addresses
RecordPool ==
    << Rec(<<"r","1">>, "crm", [name |-> StrV(<<"B","a","n","a">>),
                                date_of_birth |-> Dob1985, national_id |-> NidS1]),
       Rec(<<"r","2">>, "kyc_system", [name |-> StrV(<<"B","a","n","n","a">>),
                                date_of_birth |-> Dob1985, national_id |-> NidS1]),
       Rec(<<"r","3">>, "transaction_system", [name |-> StrV(<<"A","n","n","a">>),
                                date_of_birth |-> Dob1985, national_id |-> NidS1]),
       Rec(<<"C","R","M","_","0","0","1">>, "crm",
           [name |-> StrV(<<"J","o","h","n"," ","W","i","l","l","i","a","m"," ","S","m","i","t","h"," ","J","r",".">>),
            date_of_birth |-> StrV(<<"1","9","8","5","-","0","3","-","1","5">>),
            national_id |-> StrV(<<"S","1","2","3","4","5","6","7","A">>)]),
       Rec(<<"K","Y","C","_","0","0","1">>, "kyc_system",
           [name |-> StrV(<<"S","M","I","T","H",","," ","J","O","H","N"," ","W">>),
            date_of_birth |-> StrV(<<"1","9","8","5","-","0","3","-","1","5">>),
            passport |-> StrV(<<"E","1","2","3","4","5","6","7","8">>)]),
       Rec(<<"r","6">>, "registry",
           [name |-> StrV(<<"B","a","n","a","n">>),
            date_of_birth |-> Dob1985, national_id |-> NidS1, address |-> StrV(<<>>),
            tax_id |-> IntV(0), pep |-> BoolV(FALSE), alias |-> NoneV]) >>

Thresholds   == {Rat(3, 4), Rat(4, 5)}
StrategyArgs == {{}, {"metaphone", "first_letter"}}

\* the lists of at most MaxBatch records of the pool, no record twice
Batches ==
    UNION {{[i \in 1..n |-> RecordPool[f[i]]] :
              f \in {g \in [1..n -> 1..Len(RecordPool)] : \A i, j \in 1..n : i # j => g[i] # g[j]}}
           : n \in 0..MaxBatch}

EmptyNetwork ==
    /\ nodes = EmptyDict /\ node_order = <<>>
    /\ edges = EmptyDict /\ edge_order = <<>>
    /\ last_op = "init" /\ prev_op = "init" /\ ops = 0 /\ ret = <<>>

\* no scorer session runs beside the session
NoScoring == str_a = <<>> /\ str_b = <<>> /\ sim = [fn |-> "none"]

InitER ==
    /\ match_threshold \in Thresholds
    /\ blocking_strategies \in {EngineStrategies(arg) : arg \in StrategyArgs}
    /\ records \in Batches
    /\ reordered = FALSE
    /\ standardized = [outcome |-> "none"]
    /\ blocking_keys = EmptyDict
    /\ outcome = "idle"
    /\ scored_pairs = <<>>
    /\ resolved = <<>>
    /\ runs = {}
    /\ EmptyNetwork
    /\ NoScoring

\* the set of resolved_id of a returned list
ResolvedIds(entities) == {entities[e].resolved_id : e \in 1..Len(entities)}

\* engine.resolve(records)
DoResolve ==
    /\ outcome = "idle"
    /\ \E r \in {Resolve(records, match_threshold, blocking_strategies)} :
           /\ outcome' = r.outcome
           /\ scored_pairs' = r.scored_pairs
           /\ resolved' = r.resolved
           /\ runs' = IF r.outcome = "ok" THEN runs \cup {ResolvedIds(r.resolved)} ELSE runs
    /\ UNCHANGED <<match_threshold, blocking_strategies, records, reordered, standardized,
                   blocking_keys, net_vars, sim_vars>>

\* the list s with s[i] and s[i + 1] exchanged; s itself when i = 0
Swapped(s, i) ==
    [k \in 1..Len(s) |-> IF i > 0 /\ k = i THEN s[i + 1]
                         ELSE IF i > 0 /\ k = i + 1 THEN s[i] ELSE s[k]]

\* the caller hands the same batch over again, as it is (i = 0) or with the
\* records i and i + 1 exchanged: every order is reached this way
Resubmit(i) ==
    /\ outcome # "idle"
    /\ records' = Swapped(records, i)
    /\ outcome' = "idle"
    /\ scored_pairs' = <<>>
    /\ resolved' = <<>>
    /\ reordered' = (reordered \/ i > 0)
    /\ UNCHANGED <<match_threshold, blocking_strategies, runs, standardized, blocking_keys,
                   net_vars, sim_vars>>

NextER ==
    \/ DoResolve
    \/ \E i \in 0..(Len(records) - 1) : Resubmit(i)

SpecER == InitER /\ [][NextER]_vars

(***************************************************************************)
(* Properties of the resolution session                                    *)
(***************************************************************************)
\* the positions of the records that are members of the returned entity e
Members(e) == Range(resolved[e].source_records)

\* the block keys of the record at position p of the batch
KeysOf(p) == Range(GenerateBlockingKeys(StandardizeRecord(records[p]), blocking_strategies))

\* the records at positions p and q are members of one returned entity
Together(p, q) == \E e \in 1..Len(resolved) : {p, q} \subseteq Members(e)

\* resolve scored the pair of the records at positions p and q, and the score
\* reached the threshold
AcceptedPair(p, q) ==
    \E k \in 1..Len(scored_pairs) :
       /\ {scored_pairs[k].record_a, scored_pairs[k].record_b} = {p, q}
       /\ RLeq(match_threshold, scored_pairs[k].overall_score)

\* resolve scored the pair of the records at positions p and q
Compared(p, q) ==
    \E k \in 1..Len(scored_pairs) : {scored_pairs[k].record_a, scored_pairs[k].record_b} = {p, q}

DistinctIds == \A p, q \in 1..Len(records) : p # q => records[p].id # records[q].id

\* C1: for a batch of records with pairwise distinct ids, resolve returns, and
\* the member sets of the returned entities partition the batch: every record is
\* a member of exactly one entity and is listed once in it, no entity is empty,
\* and there are at most as many entities as records.
C1_Partition ==
    /\ outcome # "raised"
    /\ (outcome = "ok" /\ DistinctIds) =>
          /\ \A p \in 1..Len(records) :
                Cardinality({e \in 1..Len(resolved) : p \in Members(e)}) = 1
          /\ \A e \in 1..Len(resolved) :
                /\ resolved[e].source_records # <<>>
                /\ Members(e) \subseteq 1..Len(records)
                /\ Cardinality(Members(e)) = Len(resolved[e].source_records)
          /\ Len(resolved) <= Len(records)

\* a batch of four records came back as two entities, one of them a singleton
C1_Witness ==
    /\ outcome = "ok" /\ Len(records) = 4 /\ Len(resolved) = 2
    /\ \E e \in 1..Len(resolved) : Len(resolved[e].source_records) = 1

\* C2: however often and in whatever orders a batch is resolved under one
\* threshold and one list of strategies, every call returns the same set of
\* resolved_id values.
C2_SameResolvedIds == Cardinality(runs) <= 1

\* a batch of three or more records was resolved, handed over in another order
\* and resolved again, and some of its records were merged
C2_Witness ==
    /\ outcome = "ok" /\ reordered /\ Len(records) >= 3
    /\ Len(resolved) < Len(records) /\ Len(resolved) > 1

\* C3: when resolve scored the pairs (A,B) and (B,C) at or above the threshold,
\* A, B and C are members of one returned entity.
C3_Transitive ==
    outcome = "ok" =>
       \A a, b, c \in 1..Len(records) :
          (AcceptedPair(a, b) /\ AcceptedPair(b, c)) => (Together(a, b) /\ Together(b, c) /\ Together(a, c))

\* A and C are in one entity through B although they share no block key and
\* were never compared
C3_Witness ==
    /\ outcome = "ok"
    /\ \E a, b, c \in 1..Len(records) :
          /\ a # c /\ AcceptedPair(a, b) /\ AcceptedPair(b, c)
          /\ KeysOf(a) \cap KeysOf(c) = {} /\ ~Compared(a, c)
          /\ \E e \in 1..Len(resolved) : {a, b, c} \subseteq Members(e)

\* the record at position p shares no block key with any other record
Isolated(p) == \A q \in 1..Len(records) : q # p => KeysOf(p) \cap KeysOf(q) = {}

\* C4: a record that shares no block key with any other record of the batch is
\* returned as an entity whose only member it is.
C4_SingletonPreserved ==
    outcome = "ok" =>
       \A p \in 1..Len(records) :
          Isolated(p) => \E e \in 1..Len(resolved) : resolved[e].source_records = <<p>>

\* a record that shares no block key with any other is alone in its entity
\* although its score with another record of the batch would reach the threshold
C4_Witness ==
    /\ outcome = "ok"
    /\ \E p, q \in 1..Len(records) :
          /\ p # q /\ Isolated(p)
          /\ \E e \in 1..Len(resolved) : resolved[e].source_records = <<p>>
          /\ RLeq(match_threshold,
                  OverallScore(SimilarityScores(StandardizeRecord(records[p]),
                                                StandardizeRecord(records[q]))))

\* the attributes of the member at position p as create_canonical_record sees them
MemberAttrs(p) == StandardizeRecord(records[p]).attributes

\* C5: for every returned entity and every attribute key for which a member
\* holds a value other than None (0, False and the empty string included), the
\* canonical attributes hold the key with a value other than None.
C5_CanonicalComplete ==
    outcome = "ok" =>
       \A e \in 1..Len(resolved) : \A p \in Members(e) : \A key \in DOMAIN MemberAttrs(p) :
          MemberAttrs(p)[key].k # "none" =>
             /\ key \in DOMAIN resolved[e].attributes
             /\ resolved[e].attributes[key].k # "none"

JohnWilliamSmithJr == <<"C","R","M","_","0","0","1">>
SmithJohnW         == <<"K","Y","C","_","0","0","1">>

\* C6: under the default configuration (threshold 0.75, strategies soundex and
\* ngram) the records "John William Smith Jr." and "SMITH, JOHN W" of one batch
\* share a block key and are members of one returned entity.
C6_ScenarioMerged ==
    (outcome = "ok" /\ match_threshold = Rat(3, 4) /\ blocking_strategies = DefaultStrategies) =>
       \A p, q \in 1..Len(records) :
          (records[p].id = JohnWilliamSmithJr /\ records[q].id = SmithJohnW) =>
             (KeysOf(p) \cap KeysOf(q) # {} /\ Together(p, q))

\* the source systems of the members of the returned entity e
SourcesOf(e) == {records[p].source_system : p \in Members(e)}

\* one record of one source system alone in its entity
SingletonOfOneSource(e) == Cardinality(Members(e)) = 1 /\ Cardinality(SourcesOf(e)) = 1

\* C7 as stated: a singleton entity of one source system has confidence 0.55.
C7_SingletonIs055 ==
    outcome = "ok" =>
       \A e \in 1..Len(resolved) :
          SingletonOfOneSource(e) => resolved[e].confidence_score = <<11, 20>>

\* C7, amended: the confidence of an entity is
\* min(1.0, 0.5 + 0.1 x distinct source systems + 0.05 x cluster size), which is
\* 0.65 for a singleton entity of one source system.
C7_ConfidenceFormula ==
    outcome = "ok" =>
       \A e \in 1..Len(resolved) :
          /\ resolved[e].confidence_score =
                (IF 10 + 2 * Cardinality(SourcesOf(e)) + Cardinality(Members(e)) >= 20
                 THEN <<1, 1>>
                 ELSE Rat(10 + 2 * Cardinality(SourcesOf(e)) + Cardinality(Members(e)), 20))
          /\ SingletonOfOneSource(e) => resolved[e].confidence_score = <<13, 20>>

\* a batch came back with a singleton entity of one source system and with an
\* entity of three records of three source systems
C7_Witness ==
    /\ outcome = "ok"
    /\ \E e \in 1..Len(resolved) : SingletonOfOneSource(e)
    /\ \E e \in 1..Len(resolved) :
          Cardinality(Members(e)) = 3 /\ Cardinality(SourcesOf(e)) = 3

(***************************************************************************)
(* The network session: nodes and edges are created and inference is run,  *)
(* in any order.                                                           *)
(***************************************************************************)
MaxWeight == 2
MaxOps == 6

NodeIds     == {<<"a">>, <<"b">>}
Addresses   == {<<"X">>, <<"Y">>}
NodeAttrs   == {[address |-> StrV(v)] : v \in Addresses}
EdgeTypes   == {SENT_TO, RECEIVED_FROM}
EdgeWeights == {<<w, 1>> : w \in 1..MaxWeight}
Individual  == <<"i","n","d","i","v","i","d","u","a","l">>

\* no resolution session runs beside the network session
NoResolution ==
    /\ match_threshold = Rat(3, 4)
    /\ blocking_strategies = DefaultStrategies
    /\ records = <<>> /\ reordered = FALSE /\ standardized = [outcome |-> "none"]
    /\ blocking_keys = EmptyDict
    /\ outcome = "idle" /\ scored_pairs = <<>> /\ resolved = <<>> /\ runs = {}

\* NetworkGenerationEngine.__init__
InitNet == NoResolution /\ EmptyNetwork /\ NoScoring

\* engine.create_node_from_entity(entity_id, "individual", entity_id, attributes,
\*                                risk_score)
CreateNode(entity_id, attributes, risk_score) ==
    \E node \in {NewNode(entity_id, Individual, entity_id, attributes, risk_score, <<>>)} :
    \E net \in {AddNode([map |-> nodes, order |-> node_order], node)} :
       /\ ops < MaxOps
       /\ nodes' = net.map
       /\ node_order' = net.order
       /\ ret' = <<node>>
       /\ last_op' = "create_node_from_entity"
       /\ prev_op' = last_op
       /\ ops' = ops + 1
       /\ UNCHANGED <<edges, edge_order, er_vars, sim_vars>>

\* engine.create_edge(source_id, target_id, relationship_type, weight=weight,
\*                    confidence=confidence)
CreateEdge(source_id, target_id, relationship_type, weight, confidence) ==
    \E edge \in {NewEdge(source_id, target_id, relationship_type, EmptyDict, weight, confidence)} :
    \E net \in {AddEdge([map |-> edges, order |-> edge_order], edge)} :
       /\ ops < MaxOps
       /\ edges' = net.map
       /\ edge_order' = net.order
       /\ ret' = <<edge>>
       /\ last_op' = "create_edge"
       /\ prev_op' = last_op
       /\ ops' = ops + 1
       /\ UNCHANGED <<nodes, node_order, er_vars, sim_vars>>

\* engine.run_inference()
RunInference ==
    \E st \in {RunInferenceOn(nodes, node_order, edges, edge_order)} :
       /\ ops < MaxOps
       /\ edges' = st.net.map
       /\ edge_order' = st.net.order
       /\ ret' = st.inferred_edges
       /\ last_op' = "run_inference"
       /\ prev_op' = last_op
       /\ ops' = ops + 1
       /\ UNCHANGED <<nodes, node_order, er_vars, sim_vars>>

NextNet ==
    \/ \E entity_id \in NodeIds, attributes \in NodeAttrs :
          CreateNode(entity_id, attributes, RZero)
    \/ \E source_id \in NodeIds, target_id \in NodeIds, relationship_type \in EdgeTypes,
          weight \in EdgeWeights :
          source_id # target_id
          /\ CreateEdge(source_id, target_id, relationship_type, weight, ROne)
    \/ RunInference

SpecNet == InitNet /\ [][NextNet]_vars

(***************************************************************************)
(* Properties of the network session                                       *)
(***************************************************************************)
\* the stored edges with the (source, target, kind) of edge
EdgesOfTriple(es, edge) == {id \in DOMAIN es : EdgeKey(es[id]) = EdgeKey(edge)}

\* C8: after create_edge exactly one stored edge has the (source_id, target_id,
\* relationship_type) of the call, and a call whose triple was stored already
\* leaves the number of stored edges as it was.
C8_OneEdgePerTriple ==
    [][last_op' = "create_edge" =>
          /\ Cardinality(EdgesOfTriple(edges', ret'[1])) = 1
          /\ EdgesOfTriple(edges, ret'[1]) # {} =>
                Cardinality(DOMAIN edges') = Cardinality(DOMAIN edges)]_vars

\* create_edge was called twice in a row and one edge is stored
C8_Witness ==
    /\ last_op = "create_edge" /\ prev_op = "create_edge"
    /\ Cardinality(DOMAIN edges) = 1

\* C9: run_inference leaves every edge stored before the call as it was, and
\* called again right after a run_inference it returns the empty list and
\* leaves the edges unchanged.
C9_InferenceIdempotent ==
    [][last_op' = "run_inference" =>
          /\ \A id \in DOMAIN edges : id \in DOMAIN edges' /\ edges'[id] = edges[id]
          /\ last_op = "run_inference" =>
                (ret' = <<>> /\ edges' = edges /\ edge_order' = edge_order)]_vars

\* run_inference was called twice in a row, the second call returned the empty
\* list, and an inferred edge is stored
C9_Witness ==
    /\ last_op = "run_inference" /\ prev_op = "run_inference" /\ ret = <<>>
    /\ \E id \in DOMAIN edges : id[1] = "str"

\* C10: create_node_from_entity with an id that is stored, and create_edge with
\* a triple whose id is stored, leave the stored node or edge as it was.
C10_CreateOrIgnore ==
    [][/\ (last_op' = "create_node_from_entity" /\ ret'[1].id \in DOMAIN nodes) =>
             nodes'[ret'[1].id] = nodes[ret'[1].id]
       /\ (last_op' = "create_edge" /\ ret'[1].id \in DOMAIN edges) =>
             edges'[ret'[1].id] = edges[ret'[1].id]]_vars

(***************************************************************************)
(* The graph session: every operation of the engine, on a feed of          *)
(* transactions and a corporate registry record.                           *)
(***************************************************************************)
MaxGraphOps == 4
MaxTx == 3
MaxHops == 2

Id_s == <<"s">>
Id_u == <<"u">>
Id_v == <<"v">>
Id_w == <<"w">>
GraphIds == {Id_s, Id_u, Id_v, Id_w}

\* a transaction dict
Tx(id, sender, receiver, amount) ==
    [id |-> StrV(id), sender_entity_id |-> StrV(sender), receiver_entity_id |-> StrV(receiver),
     amount |-> IntV(amount)]

\* the transactions of the feed, oldest first; the last names no receiver
TxFeed ==
    << Tx(<<"t","1">>, Id_s, Id_u, 1),
       Tx(<<"t","2">>, Id_s, Id_w, 1),
       Tx(<<"t","3">>, Id_s, Id_u, 2),
       Tx(<<"t","4">>, Id_u, Id_s, 1),
       [id |-> StrV(<<"t","5">>), sender_entity_id |-> StrV(Id_s), amount |-> IntV(1)] >>

\* the registry record of company v: a director, a controlling shareholder
\* and a shareholder entry without an entity id
CorporateFeed ==
    << [company_id |-> StrV(Id_v),
        directors |-> <<[entity_id |-> StrV(Id_u), role |-> StrV(<<"C","E","O">>)]>>,
        shareholders |-> <<[entity_id |-> StrV(Id_w), percentage |-> IntV(60)],
                           [percentage |-> IntV(40)]>>] >>

\* the lists of at most max elements of feed, in the order of the feed
Sublists(feed, max) ==
    {[k \in 1..Cardinality(pick) |->
        feed[CHOOSE i \in pick : Cardinality({j \in pick : j < i}) = k - 1]] :
     pick \in {x \in SUBSET (1..Len(feed)) : Cardinality(x) <= max}}

GraphNodeIds  == {Id_s, Id_u}
GraphAttrs    == {[address |-> StrV(<<"X">>)]}
RiskScores    == {Rat(4, 5)}
GraphWeights  == {ROne, Rat(1, 2)}
Confidences   == {ROne, Rat(1, 2)}
DecayFactors  == {Rat(1, 2), Rat(4, 5)}

\* the orders in which a set of node ids may be iterated
LevelOrders ==
    {[i \in 1..4 |-> order[i]] :
       order \in {f \in [1..4 -> GraphIds] : \A i, j \in 1..4 : i # j => f[i] # f[j]}}

\* engine.extract_relationships_from_transactions(transactions)
ExtractRelationshipsFromTransactions(transactions) ==
    \E new_edges \in {TransactionEdges(transactions)} :
    \E net \in {AddEdges([map |-> edges, order |-> edge_order], new_edges, 1)} :
       /\ ops < MaxOps
       /\ edges' = net.map
       /\ edge_order' = net.order
       /\ ret' = new_edges
       /\ last_op' = "extract_relationships_from_transactions"
       /\ prev_op' = last_op
       /\ ops' = ops + 1
       /\ UNCHANGED <<nodes, node_order, er_vars, sim_vars>>

\* engine.extract_relationships_from_corporate_data(corporate_records)
ExtractRelationshipsFromCorporateData(corporate_records) ==
    \E new_edges \in {CorporateEdges(corporate_records)} :
    \E net \in {AddEdges([map |-> edges, order |-> edge_order], new_edges, 1)} :
       /\ ops < MaxOps
       /\ edges' = net.map
       /\ edge_order' = net.order
       /\ ret' = new_edges
       /\ last_op' = "extract_relationships_from_corporate_data"
       /\ prev_op' = last_op
       /\ ops' = ops + 1
       /\ UNCHANGED <<nodes, node_order, er_vars, sim_vars>>

\* a call that returns result and leaves the network as it is
Query(op, result) ==
    /\ ops < MaxOps
    /\ ret' = result
    /\ last_op' = op
    /\ prev_op' = last_op
    /\ ops' = ops + 1
    /\ UNCHANGED <<nodes, node_order, edges, edge_order, er_vars, sim_vars>>

\* engine.propagate_risk(source_node_id, max_hops, decay_factor)
PropagateRiskCall(source_node_id, max_hops, decay_factor, level_order) ==
    Query("propagate_risk",
          [source_node_id |-> source_node_id, max_hops |-> max_hops,
           decay_factor |-> decay_factor,
           risk_contributions |-> PropagateRisk(nodes, edges, edge_order, source_node_id,
                                                max_hops, decay_factor, level_order)])

\* engine.calculate_network_metrics(node_id)
CalculateNetworkMetricsCall(node_id) ==
    Query("calculate_network_metrics", CalculateNetworkMetrics(nodes, edges, node_id))

\* engine.network.get_neighbors(node_id, depth)
GetNeighborsCall(node_id, depth) ==
    Query("get_neighbors", [node_id |-> node_id, depth |-> depth,
                            neighbors |-> GetNeighbors(edges, node_id, depth)])

\* engine.network.get_subgraph(node_ids)
GetSubgraphCall(node_ids) ==
    Query("get_subgraph", LetIn(GetSubgraph(nodes, edges, node_ids),
                                LAMBDA subgraph : [node_ids |-> node_ids,
                                                   nodes |-> subgraph.nodes,
                                                   edges |-> subgraph.edges]))

\* engine.export_to_neo4j_format()
ExportCall ==
    Query("export_to_neo4j_format", ExportToNeo4jFormat(nodes, node_order, edges, edge_order))

NextGraph ==
    \/ /\ ops < MaxGraphOps
       /\ \E entity_id \in GraphNodeIds, attributes \in GraphAttrs, risk_score \in RiskScores :
             CreateNode(entity_id, attributes, risk_score)
    \/ /\ ops < MaxGraphOps
       /\ \E pair \in {<<Id_s, Id_u>>, <<Id_u, Id_s>>}, weight \in GraphWeights,
             confidence \in Confidences :
             CreateEdge(pair[1], pair[2], SENT_TO, weight, confidence)
    \/ /\ ops < MaxGraphOps
       /\ \E transactions \in Sublists(TxFeed, MaxTx) :
             ExtractRelationshipsFromTransactions(transactions)
    \/ /\ ops < MaxGraphOps
       /\ \E corporate_records \in Sublists(CorporateFeed, 1) :
             ExtractRelationshipsFromCorporateData(corporate_records)
    \/ /\ ops < MaxGraphOps
       /\ RunInference
    \/ /\ ops < MaxGraphOps
       /\ \E source_node_id \in GraphNodeIds \cup {Id_v}, max_hops \in 0..MaxHops,
             decay_factor \in DecayFactors, level_order \in LevelOrders :
             PropagateRiskCall(source_node_id, max_hops, decay_factor, level_order)
    \/ /\ ops < MaxGraphOps
       /\ \E node_id \in GraphIds : CalculateNetworkMetricsCall(node_id)
    \/ /\ ops < MaxGraphOps
       /\ \E node_id \in GraphIds, depth \in 0..MaxHops : GetNeighborsCall(node_id, depth)
    \/ /\ ops < MaxGraphOps
       /\ \E node_ids \in SUBSET GraphIds : GetSubgraphCall(node_ids)
    \/ /\ ops < MaxGraphOps
       /\ ExportCall

SpecGraph == InitNet /\ [][NextGraph]_vars

(***************************************************************************)
(* Properties of the graph session                                         *)
(***************************************************************************)
\* C11: whatever the engine is asked to do, a node id and an edge id that are
\* stored before the call are stored after it.
C11_IdsNeverLost ==
    [][DOMAIN nodes \subseteq DOMAIN nodes' /\ DOMAIN edges \subseteq DOMAIN edges']_vars

\* get_subgraph returned a network with a node and with some but not all of
\* the edges, and the engine's own network holds its nodes and edges still
C11_Witness ==
    /\ last_op = "get_subgraph"
    /\ DOMAIN ret.nodes # {} /\ DOMAIN ret.edges # {}
    /\ DOMAIN ret.edges # DOMAIN edges
    /\ DOMAIN ret.nodes \subseteq DOMAIN nodes /\ DOMAIN ret.edges \subseteq DOMAIN edges

\* C12: after extract_relationships_from_transactions the network holds, for
\* each transaction that has a sender and a receiver, the SENT_TO edge made for
\* it, with the amount as weight, and two transactions have two edges.
C12_OneEdgePerTransaction ==
    [][last_op' = "extract_relationships_from_transactions" =>
          /\ \A i, j \in 1..Len(ret') : i # j => ret'[i].id # ret'[j].id
          /\ \A i \in 1..Len(ret') :
                /\ ret'[i].id \in DOMAIN edges'
                /\ edges'[ret'[i].id].relationship_type = SENT_TO
                /\ edges'[ret'[i].id].weight = <<ret'[i].attributes["amount"].n, 1>>]_vars

\* the unordered pairs of ids of the session
GraphPairs == {pair \in SUBSET GraphIds : Cardinality(pair) = 2}

\* the edges of the list new_edges that join the two ids of pair
Joining(new_edges, pair) ==
    {k \in 1..Len(new_edges) : {new_edges[k].source_id, new_edges[k].target_id} = pair}

\* C13: when run_inference follows extract_relationships_from_transactions on a
\* network whose edges are those of the transactions, a pair of entities is
\* joined by a stored TRANSACTED_WITH edge exactly when the list held at least
\* min_transactions transactions between the two.
C13_TransactedWith ==
    [][(/\ last_op = "extract_relationships_from_transactions"
        /\ last_op' = "run_inference"
        /\ DOMAIN edges = {ret[k].id : k \in 1..Len(ret)}) =>
          \A pair \in GraphPairs :
             (Cardinality(Joining(ret, pair)) >= MinTransactions)
             <=> (\E id \in DOMAIN edges' :
                     /\ edges'[id].relationship_type = TRANSACTED_WITH
                     /\ {edges'[id].source_id, edges'[id].target_id} = pair)]_vars

\* the number of hops from source to id along stored edges, MaxHops + 1 when
\* it is further away
Hop(source, id) ==
    IF id = source THEN 0
    ELSE LET within == {d \in 1..MaxHops : id \in GetNeighbors(edges, source, d)}
         IN  IF within = {} THEN MaxHops + 1
             ELSE CHOOSE d \in within : \A e \in within : d <= e

Adjacent(a, b) == \E id \in DOMAIN edges : {edges[id].source_id, edges[id].target_id} = {a, b}

\* C15: in the map propagate_risk returns for a decay factor strictly between
\* 0 and 1, a node one hop from the source has a smaller contribution than the
\* source, and a node at hop h + 1 has a smaller contribution than a node at
\* hop h to which an edge joins it.
C15_RiskDecays ==
    (/\ last_op = "propagate_risk"
     /\ RLt(RZero, ret.decay_factor) /\ RLt(ret.decay_factor, ROne)) =>
       \A a, b \in DOMAIN ret.risk_contributions :
          (Adjacent(a, b) /\ Hop(ret.source_node_id, b) = Hop(ret.source_node_id, a) + 1)
          => RLt(ret.risk_contributions[b], ret.risk_contributions[a])

\* the stored edges that join a and b
Between(a, b) == {id \in DOMAIN edges : {edges[id].source_id, edges[id].target_id} = {a, b}}

\* C16: when propagate_risk is called with max_hops >= 1 for a stored source
\* node of risk r, and exactly one stored edge, of confidence c and weight w,
\* joins the source and another node v, in either direction, the map returned
\* gives v the contribution r x decay_factor x c x w.
C16_OneHopContribution ==
    (/\ last_op = "propagate_risk"
     /\ ret.max_hops >= 1
     /\ ret.source_node_id \in DOMAIN nodes) =>
       \A v \in GraphIds \ {ret.source_node_id} :
          Cardinality(Between(ret.source_node_id, v)) = 1 =>
             /\ v \in DOMAIN ret.risk_contributions
             /\ \A id \in Between(ret.source_node_id, v) :
                   ret.risk_contributions[v] =
                      RMul(RMul(RMul(nodes[ret.source_node_id].risk_score, ret.decay_factor),
                                edges[id].confidence),
                           edges[id].weight)

\* scenario 4 with the edge pointing at the source: the source s has risk 0.8,
\* the one stored edge runs from u to s with confidence 1.0 and weight 1.0, and
\* propagate_risk(s, max_hops=2, decay_factor=0.5) gave u the contribution 0.4
C16_Witness ==
    /\ last_op = "propagate_risk"
    /\ ret.source_node_id = Id_s /\ ret.max_hops = 2 /\ ret.decay_factor = Rat(1, 2)
    /\ Id_s \in DOMAIN nodes /\ nodes[Id_s].risk_score = Rat(4, 5)
    /\ Cardinality(DOMAIN edges) = 1
    /\ \A id \in DOMAIN edges :
          /\ edges[id].source_id = Id_u /\ edges[id].target_id = Id_s
          /\ edges[id].confidence = ROne /\ edges[id].weight = ROne
    /\ ret.risk_contributions = (Id_s :> Rat(4, 5)) @@ (Id_u :> Rat(2, 5))

\* the orders in which the stored edges may be listed
RECURSIVE ListsOf(_)
ListsOf(ids) ==
    IF ids = {} THEN {<<>>}
    ELSE UNION {{<<id>> \o rest : rest \in ListsOf(ids \ {id})} : id \in ids}

\* C17: the map propagate_risk returned is the map it returns for every order
\* in which the nodes of a level can be visited and for every order in which
\* the stored edges can be listed.
C17_OrderIndependent ==
    last_op = "propagate_risk" =>
       /\ \A level_order \in LevelOrders :
             PropagateRisk(nodes, edges, edge_order, ret.source_node_id, ret.max_hops,
                           ret.decay_factor, level_order) = ret.risk_contributions
       /\ \A order \in ListsOf(DOMAIN edges) :
             PropagateRisk(nodes, edges, order, ret.source_node_id, ret.max_hops,
                           ret.decay_factor, <<Id_s, Id_u, Id_v, Id_w>>)
                = ret.risk_contributions

\* C22: get_subgraph(S) returns the stored nodes whose id is in S and the
\* stored edges whose source and target are both nodes of the network it
\* returns, each as it is stored, and leaves the engine's nodes and edges as
\* they were.
C22_InducedSubgraph ==
    [][last_op' = "get_subgraph" =>
          /\ DOMAIN ret'.nodes = ret'.node_ids \cap DOMAIN nodes
          /\ \A id \in DOMAIN ret'.nodes : ret'.nodes[id] = nodes[id]
          /\ DOMAIN ret'.edges = {id \in DOMAIN edges :
                                    /\ edges[id].source_id \in DOMAIN ret'.nodes
                                    /\ edges[id].target_id \in DOMAIN ret'.nodes}
          /\ \A id \in DOMAIN ret'.edges : ret'.edges[id] = edges[id]
          /\ nodes' = nodes /\ node_order' = node_order
          /\ edges' = edges /\ edge_order' = edge_order]_vars

\* the ids joined to a member of ids by a stored edge, in either direction
Around(ids) ==
    {edges[id].target_id : id \in {i \in DOMAIN edges : edges[i].source_id \in ids}}
    \cup {edges[id].source_id : id \in {i \in DOMAIN edges : edges[i].target_id \in ids}}

\* the ids at most d edges away from source, edges taken as undirected
RECURSIVE Ball(_, _)
Ball(source, d) == IF d <= 0 THEN {source}
                   ELSE LetIn(Ball(source, d - 1), LAMBDA inner : inner \cup Around(inner))

\* the ids whose shortest path from source has between 1 and d edges
Ring(source, d) == Ball(source, d) \ {source}

SelfLoop(id) == \E e \in DOMAIN edges : edges[e].source_id = id /\ edges[e].target_id = id

\* C23: get_neighbors(n, depth) returns the ids whose shortest path from n,
\* edges taken as undirected, has between 1 and depth edges: the empty set for
\* depth < 1, and never n itself unless an edge joins n to n.
C23_NeighborsByDistance ==
    last_op = "get_neighbors" =>
       /\ ret.neighbors = (IF ret.depth < 1 THEN {} ELSE Ring(ret.node_id, ret.depth))
                             \cup (IF ret.depth >= 1 /\ SelfLoop(ret.node_id)
                                   THEN {ret.node_id} ELSE {})
       /\ ~SelfLoop(ret.node_id) => ret.node_id \notin ret.neighbors

\* the number of edges of a shortest path from source to id, MaxHops + 1 when
\* there is none of MaxHops edges or fewer
Distance(source, id) ==
    LET within == {d \in 0..MaxHops : id \in Ball(source, d)}
    IN  IF within = {} THEN MaxHops + 1 ELSE CHOOSE d \in within : \A e \in within : d <= e

RECURSIVE RPow(_, _)
RPow(x, n) == IF n = 0 THEN ROne ELSE RMul(x, RPow(x, n - 1))

\* C25: the map propagate_risk returns for a stored source holds the source,
\* with its own risk_score, and the ids between 1 and max_hops edges away from
\* it; an id h edges away holds source risk x decay_factor^h x confidence x
\* weight of a stored edge that joins it to an id h - 1 edges away.  For a
\* source that is not stored the map is empty.
C25_RiskMap ==
    last_op = "propagate_risk" =>
       LET source == ret.source_node_id
           map    == ret.risk_contributions
       IN  IF source \notin DOMAIN nodes THEN map = EmptyDict
           ELSE /\ DOMAIN map = {source} \cup Ring(source, ret.max_hops)
                /\ map[source] = nodes[source].risk_score
                /\ \A v \in DOMAIN map \ {source} :
                      \E id \in DOMAIN edges : \E u \in DOMAIN map :
                         /\ {edges[id].source_id, edges[id].target_id} = {u, v}
                         /\ Distance(source, u) = Distance(source, v) - 1
                         /\ map[v] = RMul(RMul(RMul(nodes[source].risk_score,
                                                    RPow(ret.decay_factor, Distance(source, v))),
                                               edges[id].confidence),
                                          edges[id].weight)

\* propagate_risk reached an id two edges from the source along two paths
\* whose last edges give different contributions, and the map holds one of them
C25_Witness ==
    /\ last_op = "propagate_risk"
    /\ ret.source_node_id \in DOMAIN nodes
    /\ \E v \in DOMAIN ret.risk_contributions :
          /\ Distance(ret.source_node_id, v) = 2
          /\ \E i, j \in DOMAIN edges :
                /\ v \in {edges[i].source_id, edges[i].target_id}
                /\ v \in {edges[j].source_id, edges[j].target_id}
                /\ RMul(edges[i].confidence, edges[i].weight)
                      # RMul(edges[j].confidence, edges[j].weight)
                /\ \A e \in {i, j} : \E u \in Ring(ret.source_node_id, 1) :
                      {edges[e].source_id, edges[e].target_id} = {u, v}

(***************************************************************************)
(* The inference session: nodes with and without an address are created    *)
(* and inference is run.                                                   *)
(***************************************************************************)
MaxInferOps == 5

InferIds   == {<<"a">>, <<"c">>, <<"a","_","b">>, <<"b","_","c">>}
InferAttrs == {EmptyDict, [address |-> StrV(<<>>)], [address |-> StrV(<<"X">>)]}

NextInfer ==
    \/ /\ ops < MaxInferOps
       /\ \E entity_id \in InferIds, attributes \in InferAttrs :
             CreateNode(entity_id, attributes, RZero)
    \/ /\ ops < MaxInferOps
       /\ \E pair \in {<<(<<"a">>), (<<"c">>)>>, <<(<<"c">>), (<<"a">>)>>} :
             CreateEdge(pair[1], pair[2], CO_LOCATED, ROne, ROne)
    \/ /\ ops < MaxInferOps
       /\ RunInference

SpecInfer == InitNet /\ [][NextInfer]_vars

(***************************************************************************)
(* Properties of the inference session                                     *)
(***************************************************************************)
\* the stored nodes whose address is a non-empty string
WithAddress == {id \in DOMAIN nodes : Truthy(Get(nodes[id].attributes, "address"))}

\* the pairs of stored nodes that hold the same non-empty address
SameAddress ==
    {pair \in SUBSET WithAddress :
        /\ Cardinality(pair) = 2
        /\ \A a, b \in pair : nodes[a].attributes["address"] = nodes[b].attributes["address"]}

\* the CO_LOCATED edges of es
CoLocated(es) == {id \in DOMAIN es : es[id].relationship_type = CO_LOCATED}

\* C14: run_inference on a network without edges stores one CO_LOCATED edge
\* for each pair of nodes that hold the same non-empty address, n(n-1)/2 for n
\* such nodes, and none that touches a node without an address.
C14_PairwiseCoLocated ==
    [][(last_op' = "run_inference" /\ DOMAIN edges = {}) =>
          /\ Cardinality(CoLocated(edges')) = Cardinality(SameAddress)
          /\ \A pair \in SameAddress :
                Cardinality({id \in CoLocated(edges') :
                               {edges'[id].source_id, edges'[id].target_id} = pair}) = 1
          /\ \A id \in CoLocated(edges') :
                {edges'[id].source_id, edges'[id].target_id} \subseteq WithAddress]_vars

(***************************************************************************)
(* The scoring session: SimilarityScorer and score_candidate_pair are      *)
(* called once on two strings, in both argument orders.                    *)
(***************************************************************************)
MaxNameLen == 4

\* the strings of at most n characters of chars
Strings(chars, n) == UNION {[1..k -> chars] : k \in 0..n}

\* names with capitals, with two tokens and with a capital whose lower case
\* is two characters long
MixedNames == { <<"A">>, <<"A", "b">>, <<"a", " ", "b">>, <<"b", " ", "a">>, <<"U+0130">> }

Names == Strings({"a", "b"}, MaxNameLen) \cup MixedNames

\* the attributes a record can hold next to its name
OtherAttrsA ==
    [date_of_birth |-> Dob1985, address |-> StrV(<<"a", "b">>), national_id |-> NidS1,
     passport |-> StrV(<<"E", "1">>), tax_id |-> IntV(0), company_reg |-> StrV(<<"C", "9">>)]
OtherAttrsB ==
    [date_of_birth |-> Dob1985, address |-> StrV(<<"b", "a">>), national_id |-> NidS1,
     passport |-> StrV(<<"E", "2">>), tax_id |-> IntV(5), company_reg |-> StrV(<<"C", "9">>)]

\* a record holds the date of birth or not, the address or not, and the four
\* identifiers or none of them
KeyGroups == {{"date_of_birth"}, {"address"}, {"national_id", "passport", "tax_id", "company_reg"}}
Restricted(attrs, keys) == [k \in keys |-> attrs[k]]

\* a record whose name is name when name is not empty, with the attributes other
NamedRec(id, name, other) ==
    Rec(id, <<"s">>, IF name = <<>> THEN other ELSE Put(other, "name", StrV(name)))

InitSim ==
    /\ NoResolution
    /\ EmptyNetwork
    /\ str_a \in Names
    /\ str_b \in Names
    /\ sim = [fn |-> "none"]

\* one call of a similarity function f on (str_a, str_b) and on (str_b, str_a)
Scored(fn, f(_, _)) ==
    /\ sim.fn = "none"
    /\ sim' = [fn |-> fn, ab |-> f(str_a, str_b), ba |-> f(str_b, str_a)]
    /\ UNCHANGED <<er_vars, net_vars, str_a, str_b>>

LevenshteinSimilarityCall == Scored("levenshtein_similarity", LevenshteinSimilarity)
JaroWinklerSimilarityCall == Scored("jaro_winkler_similarity", JaroWinklerSimilarity)
JaccardSimilarityCall     == Scored("jaccard_similarity", JaccardSimilarity)
TokenBasedSimilarityCall  == Scored("token_based_similarity", TokenBasedSimilarity)
PhoneticSimilarityCall    == Scored("phonetic_similarity", PhoneticSimilarity)
CompositeNameScoreCall    == Scored("composite_name_score", CompositeNameScore)

\* jaro_similarity, with the counts its loops end with
JaroSimilarityCall ==
    /\ sim.fn = "none"
    /\ sim' = [fn |-> "jaro_similarity",
               ab |-> JaroSimilarity(str_a, str_b), ba |-> JaroSimilarity(str_b, str_a),
               counts_ab |-> JaroCounts(str_a, str_b), counts_ba |-> JaroCounts(str_b, str_a)]
    /\ UNCHANGED <<er_vars, net_vars, str_a, str_b>>

\* score_candidate_pair on two records named str_a and str_b
ScoreCandidatePairCall ==
    /\ sim.fn = "none"
    /\ \E groups_a \in SUBSET KeyGroups, groups_b \in SUBSET KeyGroups :
          LET std == << NamedRec(<<"r", "1">>, str_a, Restricted(OtherAttrsA, UNION groups_a)),
                        NamedRec(<<"r", "2">>, str_b, Restricted(OtherAttrsB, UNION groups_b)) >>
              pair_ab == ScoreCandidatePair(std, 1, 2)
              pair_ba == ScoreCandidatePair(std, 2, 1)
          IN  sim' = [fn |-> "score_candidate_pair",
                      ab |-> pair_ab.overall_score, ba |-> pair_ba.overall_score,
                      scores_ab |-> pair_ab.similarity_scores,
                      scores_ba |-> pair_ba.similarity_scores,
                      attrs_a |-> std[1].attributes, attrs_b |-> std[2].attributes]
    /\ UNCHANGED <<er_vars, net_vars, str_a, str_b>>

NextSim ==
    \/ LevenshteinSimilarityCall
    \/ JaroSimilarityCall
    \/ JaroWinklerSimilarityCall
    \/ JaccardSimilarityCall
    \/ TokenBasedSimilarityCall
    \/ PhoneticSimilarityCall
    \/ CompositeNameScoreCall
    \/ ScoreCandidatePairCall

SpecSim == InitSim /\ [][NextSim]_vars

(***************************************************************************)
(* Properties of the scoring session                                       *)
(***************************************************************************)
SimilarityFunctions ==
    {"levenshtein_similarity", "jaro_similarity", "jaro_winkler_similarity",
     "jaccard_similarity", "token_based_similarity", "phonetic_similarity",
     "composite_name_score"}

\* C18: a similarity function called on two empty strings returns 1, and
\* called on an empty and a non-empty string, in either order, returns 0.
C18_EmptyStrings ==
    sim.fn \in SimilarityFunctions =>
       /\ (str_a = <<>> /\ str_b = <<>>) => (sim.ab = ROne /\ sim.ba = ROne)
       /\ ((str_a = <<>>) # (str_b = <<>>)) => (sim.ab = RZero /\ sim.ba = RZero)

\* C19: every similarity function and the overall score of
\* score_candidate_pair return the same value for (a, b) and for (b, a), and
\* jaro_similarity ends with the same counts of matches and of transpositions
\* in both orders.
C19_Symmetric ==
    sim.fn # "none" =>
       /\ sim.ab = sim.ba
       /\ sim.fn = "jaro_similarity" => sim.counts_ab = sim.counts_ba
       /\ sim.fn = "score_candidate_pair" => sim.scores_ab = sim.scores_ba

\* jaro_similarity was called on two strings of different lengths and counted
\* transposed matches
C19_Witness ==
    /\ sim.fn = "jaro_similarity"
    /\ Len(str_a) # Len(str_b)
    /\ sim.counts_ab[2] > 0
    /\ sim.ab = sim.ba

InUnit(score) == RLeq(RZero, score) /\ RLeq(score, ROne)

\* C20: every value a similarity function returns, every entry of
\* similarity_scores and every overall_score is at least 0 and at most 1.
C20_InUnitInterval ==
    sim.fn # "none" =>
       /\ InUnit(sim.ab)
       /\ InUnit(sim.ba)
       /\ sim.fn = "score_candidate_pair" =>
             \A key \in DOMAIN sim.scores_ab : InUnit(sim.scores_ab[key])

(***************************************************************************)
(* The intake session: a batch of partially populated records, whose name, *)
(* date_of_birth and address are absent, None, an int or a str, is         *)
(* standardized record by record and resolved.                             *)
(***************************************************************************)
MaxIntake == 2

\* the dicts that hold key with one of values, or do not hold it
OptionalField(key, values) == {EmptyDict} \cup {Put(EmptyDict, key, v) : v \in values}

IntakeAttrs ==
    {Merged(Merged(n, d), a) :
       n \in OptionalField("name", {NoneV, IntV(7), StrV(<<"D","r"," ","A","n","n">>)}),
       d \in OptionalField("date_of_birth", {NoneV, IntV(7), Dob1985}),
       a \in OptionalField("address", {NoneV, IntV(7), StrV(<<"1"," ","R","o","a","d">>)})}

IntakeIds == << <<"r","1">>, <<"r","2">> >>

\* the lists of at most MaxIntake records, the i-th with the i-th id
IntakeBatches ==
    UNION {{[i \in 1..n |-> Rec(IntakeIds[i], "crm", attrs[i])] : attrs \in [1..n -> IntakeAttrs]}
           : n \in 0..MaxIntake}

InitIntake ==
    /\ match_threshold = Rat(3, 4)
    /\ blocking_strategies = DefaultStrategies
    /\ records \in IntakeBatches
    /\ reordered = FALSE
    /\ standardized = [outcome |-> "none"]
    /\ blocking_keys = EmptyDict
    /\ outcome = "idle"
    /\ scored_pairs = <<>>
    /\ resolved = <<>>
    /\ runs = {}
    /\ EmptyNetwork
    /\ NoScoring

\* engine.standardize_record(records[p]): the record returned, or the TypeError
\* of re.sub
StandardizeRecordCall(p) ==
    /\ standardized' = IF StandardizeRaises(records[p])
                       THEN [outcome |-> "raised", input |-> p]
                       ELSE [outcome |-> "ok", input |-> p,
                             record |-> StandardizeRecord(records[p])]
    /\ UNCHANGED <<match_threshold, blocking_strategies, records, outcome, scored_pairs,
                   resolved, runs, reordered, blocking_keys, net_vars, sim_vars>>

NextIntake ==
    \/ \E p \in 1..Len(records) : StandardizeRecordCall(p)
    \/ DoResolve

SpecIntake == InitIntake /\ [][NextIntake]_vars

(***************************************************************************)
(* Properties of the intake session                                        *)
(***************************************************************************)
\* C21: standardize_record returns a record for every input, which holds the
\* attributes of its input and the standardized forms of those it could
\* normalise, and resolve returns a list of entities for every batch.
C21_NeverFails ==
    /\ standardized.outcome # "raised"
    /\ outcome # "raised"
    /\ standardized.outcome = "ok" =>
          \A key \in DOMAIN records[standardized.input].attributes :
             /\ key \in DOMAIN standardized.record.attributes
             /\ standardized.record.attributes[key] = records[standardized.input].attributes[key]

(***************************************************************************)
(* The blocking session: an engine configured with some of the five        *)
(* strategies generates the block keys of the records of a batch.          *)
(***************************************************************************)
MaxBlocked == 2

\* the names an engine can be configured with for the five strategies; the
\* first four are the names generate_blocking_keys tests for
StrategyNames == {"soundex", "metaphone", "ngram", "first_letter", "location"}

Singapore == [country |-> StrV(<<"S","G">>), city |-> StrV(<<"S","i","n","g","a","p","o","r","e">>)]

BlockingPool ==
    << Rec(<<"b","1">>, "crm",
           Merged([name |-> StrV(<<"A","n","n">>), year_of_birth |-> IntV(1985)], Singapore)),
       Rec(<<"b","2">>, "kyc_system",
           Merged([name |-> StrV(<<"A","n","n","e">>), year_of_birth |-> IntV(1985)], Singapore)),
       Rec(<<"b","3">>, "registry", Merged([name |-> StrV(<<>>)], Singapore)),
       Rec(<<"b","4">>, "registry", EmptyDict) >>

\* the lists of at most MaxBlocked records of the pool, no record twice
BlockingBatches ==
    UNION {{[i \in 1..n |-> BlockingPool[f[i]]] :
              f \in {g \in [1..n -> 1..Len(BlockingPool)] : \A i, j \in 1..n : i # j => g[i] # g[j]}}
           : n \in 0..MaxBlocked}

InitBlocking ==
    /\ match_threshold = Rat(3, 4)
    /\ blocking_strategies \in {EngineStrategies(arg) : arg \in SUBSET StrategyNames}
    /\ records \in BlockingBatches
    /\ reordered = FALSE
    /\ standardized = [outcome |-> "none"]
    /\ blocking_keys = EmptyDict
    /\ outcome = "idle"
    /\ scored_pairs = <<>>
    /\ resolved = <<>>
    /\ runs = {}
    /\ EmptyNetwork
    /\ NoScoring

\* engine.generate_blocking_keys(records[p])
GenerateBlockingKeysCall(p) ==
    /\ p \notin DOMAIN blocking_keys
    /\ blocking_keys' = (p :> GenerateBlockingKeys(records[p], blocking_strategies)) @@ blocking_keys
    /\ UNCHANGED <<match_threshold, blocking_strategies, records, outcome, scored_pairs,
                   resolved, runs, reordered, standardized, net_vars, sim_vars>>

NextBlocking ==
    \/ \E p \in 1..Len(records) : GenerateBlockingKeysCall(p)
    \/ DoResolve

SpecBlocking == InitBlocking /\ [][NextBlocking]_vars

(***************************************************************************)
(* Properties of the blocking session                                      *)
(***************************************************************************)
\* what the BlockingStrategy method of a strategy computes for a record
StrategyValue(strategy, record) ==
    CASE strategy = "soundex"      -> Soundex(NameOf(record).s)
      [] strategy = "metaphone"    -> Metaphone(NameOf(record).s)
      [] strategy = "ngram"        -> Slice(NgramBlocking(NameOf(record).s, 3), 0, 3)
      [] strategy = "first_letter" ->
            FirstLetterYear(NameOf(record).s, Get(record.attributes, "year_of_birth"))
      [] strategy = "location"     ->
            LocationBlocking(Get(record.attributes, "country"), Get(record.attributes, "city"))

\* C24: under every configuration of one or more of the five strategies,
\* generate_blocking_keys returns one key or more for every record, and two
\* records for which a configured strategy computes the same value have a
\* block key in common.
C24_BlockKeys ==
    /\ \A p \in DOMAIN blocking_keys : Len(blocking_keys[p]) >= 1
    /\ \A p, q \in DOMAIN blocking_keys :
          (\E strategy \in blocking_strategies :
              StrategyValue(strategy, records[p]) = StrategyValue(strategy, records[q]))
          => Range(blocking_keys[p]) \cap Range(blocking_keys[q]) # {}

\* C26: in every state of the network no two stored edges have the same
\* (source_id, target_id, relationship_type) under different ids: an edge made
\* by create_edge and an edge made by an inference rule, of one kind and
\* between one ordered pair, are never both stored.
C26_IdOfTriple ==
    \A i, j \in DOMAIN edges : EdgeKey(edges[i]) = EdgeKey(edges[j]) => i = j

\* the attribute of a record that a score key stands for
AttributeOf == [name |-> "name", dob |-> "date_of_birth", address |-> "address",
                national_id |-> "national_id", passport |-> "passport",
                tax_id |-> "tax_id", company_reg |-> "company_reg"]

\* the weights of the spec, in hundredths
SpecWeights == [name |-> 35, dob |-> 20, address |-> 15, national_id |-> 15,
                passport |-> 10, tax_id |-> 5, company_reg |-> 5]

\* the score keys whose attribute holds a non-empty value in both records
InBoth(attrs_a, attrs_b) ==
    {key \in DOMAIN AttributeOf :
        /\ AttributeOf[key] \in DOMAIN attrs_a /\ Truthy(attrs_a[AttributeOf[key]])
        /\ AttributeOf[key] \in DOMAIN attrs_b /\ Truthy(attrs_b[AttributeOf[key]])}

\* the sum of terms[key] over the keys of a set
RECURSIVE SumOver(_, _)
SumOver(keys, terms) ==
    IF keys = {} THEN RZero
    ELSE LET key == CHOOSE k \in keys : TRUE
         IN  RAdd(terms[key], SumOver(keys \ {key}, terms))

\* C27: score_candidate_pair scores exactly the attributes that hold a
\* non-empty value in both records, and overall_score is the sum of weight x
\* score over them divided by the sum of their weights, 0 when there is none.
C27_Renormalized ==
    sim.fn = "score_candidate_pair" =>
       LET present == InBoth(sim.attrs_a, sim.attrs_b)
       IN  /\ DOMAIN sim.scores_ab = present
           /\ sim.ab = IF present = {} THEN RZero
                       ELSE RDiv(SumOver(present, [key \in present |->
                                                    RMul(Rat(SpecWeights[key], 100),
                                                         sim.scores_ab[key])]),
                                 SumOver(present, [key \in present |->
                                                    Rat(SpecWeights[key], 100)]))

\* a pair was scored whose first record alone holds an address, on the name
\* and the identifiers, three of which both records hold with a non-empty value
C27_Witness ==
    /\ sim.fn = "score_candidate_pair"
    /\ "address" \in DOMAIN sim.attrs_a /\ "address" \notin DOMAIN sim.attrs_b
    /\ "tax_id" \in DOMAIN sim.attrs_a /\ "tax_id" \in DOMAIN sim.attrs_b
    /\ DOMAIN sim.scores_ab = {"name", "national_id", "passport", "company_reg"}
    /\ RLt(RZero, sim.ab) /\ RLt(sim.ab, ROne)

(***************************************************************************)
(* Properties of the canonical record, in the resolution session           *)
(***************************************************************************)
\* the number of attributes of the member at position p whose value is not None
NotNoneCount(p) == Cardinality({key \in DOMAIN MemberAttrs(p) : MemberAttrs(p)[key].k # "none"})

\* the member at position p holds key with a value that is not None
HoldsValue(p, key) == key \in DOMAIN MemberAttrs(p) /\ MemberAttrs(p)[key].k # "none"

\* members, a list of positions, by descending number of attributes that are
\* not None; members with the same number keep their order
RECURSIVE ByNotNoneCount(_)
ByNotNoneCount(members) ==
    IF members = <<>> THEN <<>>
    ELSE LET most  == CHOOSE i \in 1..Len(members) :
                         /\ \A j \in 1..Len(members) :
                               NotNoneCount(members[j]) <= NotNoneCount(members[i])
                         /\ \A j \in 1..(i - 1) :
                               NotNoneCount(members[j]) < NotNoneCount(members[i])
             others == [k \in 1..(Len(members) - 1) |->
                          IF k < most THEN members[k] ELSE members[k + 1]]
         IN  <<members[most]>> \o ByNotNoneCount(others)

\* C28: the canonical attributes of a returned entity hold, for every key that
\* a member holds with a value other than None, the value of the first such
\* member in descending order of the number of such attributes; a member with
\* strictly more of them than every other member gives every one of its own.
C28_MostCompleteWins ==
    outcome = "ok" =>
       \A e \in 1..Len(resolved) :
          LET order == ByNotNoneCount(resolved[e].source_records)
              keys  == {key \in UNION {DOMAIN MemberAttrs(p) : p \in Members(e)} :
                          \E p \in Members(e) : HoldsValue(p, key)}
              First(key) == order[CHOOSE i \in 1..Len(order) :
                                     /\ HoldsValue(order[i], key)
                                     /\ \A j \in 1..(i - 1) : ~HoldsValue(order[j], key)]
          IN  /\ DOMAIN resolved[e].attributes = keys
              /\ \A key \in keys : resolved[e].attributes[key] = MemberAttrs(First(key))[key]
              /\ \A p \in Members(e) :
                    (\A q \in Members(e) \ {p} : NotNoneCount(q) < NotNoneCount(p)) =>
                       \A key \in DOMAIN MemberAttrs(p) :
                          HoldsValue(p, key) =>
                             /\ key \in DOMAIN resolved[e].attributes
                             /\ resolved[e].attributes[key] = MemberAttrs(p)[key]

(***************************************************************************)
(* The keyed session: a batch of records whose ids are built from letters  *)
(* and "_" is resolved, handed over again in another order and resolved    *)
(* again.                                                                  *)
(***************************************************************************)
MaxKeyed == 4

KeyedPool ==
    << Rec(<<"a">>, "crm", [name |-> StrV(<<"B","a","n","a">>),
                            date_of_birth |-> Dob1985, national_id |-> NidS1]),
       Rec(<<"b">>, "kyc_system", [name |-> StrV(<<"B","a","n","n","a">>),
                            date_of_birth |-> Dob1985, national_id |-> NidS1]),
       Rec(<<"a","_","b">>, "registry", [name |-> StrV(<<"Z","e","d">>)]),
       Rec(<<"c">>, "registry", [name |-> StrV(<<"B","a","n","a","n">>),
                            date_of_birth |-> Dob1985, national_id |-> NidS1]),
       Rec(<<"d">>, "crm", [name |-> StrV(<<"B","i","m">>)]) >>

\* match_threshold of the keyed session: between the scores of the pairs of a, b and c
KeyedThresholds == Thresholds \cup {Rat(83, 100)}

\* the lists of at most MaxKeyed records of the pool, no record twice
KeyedBatches ==
    UNION {{[i \in 1..n |-> KeyedPool[f[i]]] :
              f \in {g \in [1..n -> 1..Len(KeyedPool)] : \A i, j \in 1..n : i # j => g[i] # g[j]}}
           : n \in 0..MaxKeyed}

InitKeyed ==
    /\ match_threshold \in KeyedThresholds
    /\ blocking_strategies \in {EngineStrategies(arg) : arg \in StrategyArgs}
    /\ records \in KeyedBatches
    /\ reordered = FALSE
    /\ standardized = [outcome |-> "none"]
    /\ blocking_keys = EmptyDict
    /\ outcome = "idle"
    /\ scored_pairs = <<>>
    /\ resolved = <<>>
    /\ runs = {}
    /\ EmptyNetwork
    /\ NoScoring

SpecKeyed == InitKeyed /\ [][NextER]_vars

(***************************************************************************)
(* Properties of the keyed session                                         *)
(***************************************************************************)
\* the ids of the members of the returned entity e
MemberIds(e) == {records[p].id : p \in Members(e)}

\* C29: two entities of one result whose sets of member ids differ have
\* different resolved_id values, the strings that are hashed being different.
C29_ResolvedIdIdentifies ==
    outcome = "ok" =>
       \A e, f \in 1..Len(resolved) :
          MemberIds(e) # MemberIds(f) => resolved[e].resolved_id # resolved[f].resolved_id

(***************************************************************************)
(* Properties of the clusters, in the keyed session                        *)
(***************************************************************************)
\* the records at positions p and q share a block key and their overall
\* score reaches the threshold
MatchedPair(p, q) ==
    /\ p # q
    /\ KeysOf(p) \cap KeysOf(q) # {}
    /\ RLeq(match_threshold,
            OverallScore(SimilarityScores(StandardizeRecord(records[p]),
                                          StandardizeRecord(records[q]))))

\* the matched pairs of the batch, each as the set of its two positions
MatchedPairs ==
    UNION {{{p, q} : q \in {r \in p + 1..Len(records) : MatchedPair(p, r)}} :
              p \in 1..Len(records)}

\* the positions that a chain of at most n pairs of the set pairs joins to
\* one of set
RECURSIVE ChainedTo(_, _, _)
ChainedTo(set, n, pairs) ==
    IF n = 0 THEN set
    ELSE ChainedTo(set \cup {q \in 1..Len(records) : \E p \in set : {p, q} \in pairs},
                   n - 1, pairs)

\* C30: two records of a batch with distinct ids are members of one returned
\* entity exactly when a chain of pairs joins them in which each pair shares
\* a block key and scores at or above the threshold: the returned entities
\* are the connected components of that graph, in whatever order the batch
\* is handed over.
C30_ConnectedComponents ==
    (outcome = "ok" /\ DistinctIds) =>
       \A pairs \in {MatchedPairs} : \A p, q \in 1..Len(records) :
          Together(p, q) <=> q \in ChainedTo({p}, Len(records), pairs)

\* a batch handed over in another order came back with an entity of three
\* records of which two were scored below the threshold, and with a record
\* outside it that was scored below the threshold with one of the three
C30_Witness ==
    /\ outcome = "ok" /\ reordered /\ DistinctIds
    /\ \E e \in 1..Len(resolved) :
          /\ Cardinality(Members(e)) = 3
          /\ \E p, q \in Members(e) : Compared(p, q) /\ ~AcceptedPair(p, q)
          /\ \E p \in Members(e) : \E q \in 1..Len(records) \ Members(e) :
                Compared(p, q) /\ ~AcceptedPair(p, q)

====
